---- MODULE Spec2Model ----
(***************************************************************************)
(* The handler state machine of mediasoup-client: one handler instance of  *)
(* lib/handlers/Firefox60.js or of the Safari11 handler, in the send or    *)
(* the recv direction, driven by its public operations.  Every `await` of  *)
(* the source is a suspension point: an operation is a sequence of steps,  *)
(* one per awaited call, and the step that resumes it decides whether the  *)
(* awaited call resolved or rejected.                                      *)
(*                                                                         *)
(* The RTCPeerConnection is external.  It is modelled by what the handler  *)
(* observes of it: its senders/transceivers, its signaling state, and the  *)
(* receivers it materialised from the last applied remote offer.           *)
(***************************************************************************)
EXTENDS Integers, Sequences, FiniteSets, TLC

\* ---------------------------------------------------------------- bounds

\* Operation slots: invocations that may be pending at the same time.
NumSlots == 2
\* Firefox60: transceivers the peer connection may hold.
MaxTransceivers == 2
\* Firefox60: simulcast sends are offered while _nextRid is below this.
MaxRid == 3
\* '@connect' emissions are counted up to this number.
MaxConnect == 2
\* Invocations are counted up to this number: the operations a caller makes
\* on one handler.
MaxCalls == 4
\* The operations a caller makes when it does not await them.
MaxOverlapCalls == 3
\* Remote ICE parameter sets a caller may hand to restartIce(): 0..NumIce-1.
NumIce == 2
\* ICE server lists a caller may hand to updateIceServers(): 0..NumIceServers-1.
NumIceServers == 2
\* '@connectionstatechange' notifications are logged up to this number.
MaxStateChanges == 2
\* The operations a caller makes on a handler whose pending calls are
\* eventually settled.
MaxLiveCalls == 3
\* The send() calls made on a handler whose capabilities are drawn from the
\* capability sets below.
MaxCapsCalls == 2

\* ---------------------------------------------------------------- inputs

Engines == {"Firefox60", "Safari11"}
Directions == {"send", "recv"}
Slots == 1..NumSlots
Tracks == {"a1", "a2", "v1"}
TrackKind(t) == IF t \in {"a1", "a2"} THEN "audio" ELSE "video"
Ids == {"1", "2"}
Kinds == {"audio", "video"}
IceParams == 0..(NumIce - 1)
IceServers == 0..(NumIceServers - 1)
NoTrack == "none"
\* The spatialLayer argument of setMaxSpatialLayer().
SpatialLayers == {"low", "medium", "high"}
\* The values of pc.iceConnectionState.
IceConnectionStates ==
    {"new", "checking", "connected", "completed", "failed", "disconnected", "closed"}

\* The `simulcast` argument of send(): absent, or an object whose low, medium
\* and high fields are bitrates (0: the field is absent or falsy).
NoSimulcast == [on |-> FALSE, low |-> 0, medium |-> 0, high |-> 0]
Simulcasts ==
    { NoSimulcast,
      [on |-> TRUE, low |-> 1, medium |-> 2, high |-> 3],
      [on |-> TRUE, low |-> 1, medium |-> 0, high |-> 3] }

\* The callers of this model ask for simulcast on video tracks only.
SimulcastsFor(t) == IF TrackKind(t) = "video" THEN Simulcasts ELSE {NoSimulcast}

\* ----------------------------------------------------------------- state

VARIABLES
    engine,          \* which handler implementation this instance is
    direction,       \* "send" (SendHandler) or "recv" (RecvHandler)
    transportReady,  \* this._transportReady
    tracks,          \* send registry: Firefox60 _tracks, Safari11 _stream tracks
    receiverInfos,   \* recv registry: _receiverInfos in insertion order
    kinds,           \* Safari11 RecvHandler._kinds
    nextRid,         \* Firefox60 SendHandler._nextRid
    remoteIce,       \* remote ICE parameters held by this._remoteSdp
    transceivers,    \* Firefox60 send: pc.getTransceivers()
    senders,         \* Safari11 send: the tracks attached to a sender of the pc
    signalingState,  \* pc.signalingState ("closed" once the pc is closed)
    iceServers,      \* the iceServers of the pc's configuration
    iceConnectionState, \* pc.iceConnectionState
    stateChanges,    \* the '@connectionstatechange' notifications emitted
    received,        \* recv: <<kind, id>> the pc has a receiver for
    appliedMids,     \* Firefox60 recv: <<mid, position>> of the applied remote offers
    connectEmits,    \* number of '@connect' notifications emitted
    anyFailed,       \* some operation has failed so far
    negotiated,      \* some offer/answer call has been made on the pc
    completed,       \* some offer/answer round has been applied in full
    invoked,         \* number of operations invoked so far
    caps,            \* the capabilities the handler is constructed from
    ops              \* per slot: the invocation it holds

vars == << engine, direction, transportReady, tracks, receiverInfos, kinds,
           nextRid, remoteIce, transceivers, senders, signalingState, iceServers,
           iceConnectionState, stateChanges, received, appliedMids,
           connectEmits, anyFailed, negotiated, completed, invoked, caps,
           ops >>

\* Groups for UNCHANGED.
handlerId == << engine, direction, caps >>
sendReg == << tracks, nextRid >>
recvReg == << receiverInfos, kinds >>
sendPc == << transceivers, senders >>
connectVars == << transportReady, connectEmits >>
iceVars == << iceConnectionState, stateChanges >>

\* The session registry of the handler, as one value.
Registry == [tracks |-> tracks, infos |-> receiverInfos]

NoSdp == [built |-> FALSE, ice |-> 0, entries |-> << >>]

\* RTP parameters without codecs and encodings.
NoRtpParameters == [codecs |-> << >>, encodings |-> << >>]

\* An invocation: the operation, its argument, where it is suspended (pc is
\* the awaited call, or idle/done/failed), its locals, and what held when it
\* was invoked.
NewOp(s, name, arg) ==
    [ op |-> name, pc |-> "idle", arg |-> arg, kind |-> "", ice |-> 0,
      sim |-> NoSimulcast, rid |-> 0, tx |-> 0,
      newTrack |-> NoTrack, layer |-> "", enc |-> << >>, encBefore |-> << >>,
      desc |-> "none", sdp |-> NoSdp, err |-> "", result |-> NoRtpParameters,
      setup |-> FALSE, round |-> FALSE, swallowed |-> FALSE,
      regBefore |-> Registry, readyBefore |-> transportReady,
      negBefore |-> negotiated, roundBefore |-> completed,
      closedBefore |-> (signalingState = "closed"), clean |-> ~anyFailed,
      afterStop |-> ( /\ ops[s].op = "stopReceiving"
                      /\ ops[s].pc = "done"
                      /\ ops[s].arg = arg ) ]

IdleOp ==
    [ op |-> "none", pc |-> "idle", arg |-> "", kind |-> "", ice |-> 0,
      sim |-> NoSimulcast, rid |-> 0, tx |-> 0,
      newTrack |-> NoTrack, layer |-> "", enc |-> << >>, encBefore |-> << >>,
      desc |-> "none", sdp |-> NoSdp, err |-> "", result |-> NoRtpParameters,
      setup |-> FALSE, round |-> FALSE, swallowed |-> FALSE,
      regBefore |-> [tracks |-> {}, infos |-> << >>], readyBefore |-> FALSE,
      negBefore |-> FALSE, roundBefore |-> FALSE, closedBefore |-> FALSE,
      clean |-> TRUE, afterStop |-> FALSE ]

Settled(s) == ops[s].pc \in {"idle", "done", "failed"}
Running(s) == ~Settled(s)
At(s, name, pc) == ops[s].op = name /\ ops[s].pc = pc

\* An invocation that settled keeps what it was and how it ended; its locals
\* (transceiver, RID, descriptions) are gone.
Settle(o) ==
    [o EXCEPT !.tx = 0, !.rid = 0, !.sim = NoSimulcast, !.enc = << >>,
              !.desc = "none", !.sdp = NoSdp]
Done(o) == [Settle(o) EXCEPT !.pc = "done"]
Failed(o, e) == [Settle(o) EXCEPT !.pc = "failed", !.err = e]
Await(o, call) == [o EXCEPT !.pc = call]

Min(a, b) == IF a < b THEN a ELSE b

\* The step of slot s has been taken: a failure of its operation is noted,
\* and so is an offer/answer round applied in full (the pc is back to 'stable').
NoteOutcome(s) ==
    /\ anyFailed' = (anyFailed \/ ops'[s].pc = "failed")
    /\ completed' =
         (completed \/ (signalingState # "stable" /\ signalingState' = "stable"))

\* An operation is invoked.
Invoke == invoked' = Min(invoked + 1, MaxCalls)

\* ------------------------------------------------- the peer connection

\* The pc has not been closed.
PcOpen == signalingState # "closed"

\* pc.setLocalDescription(offer) is accepted in these signaling states.
SetLocalOfferOk == signalingState \in {"stable", "have-local-offer"}
\* pc.setRemoteDescription(answer)
SetRemoteAnswerOk == signalingState = "have-local-offer"
\* pc.setRemoteDescription(offer)
SetRemoteOfferOk == signalingState \in {"stable", "have-remote-offer"}
\* pc.createAnswer() and pc.setLocalDescription(answer)
AnswerOk == signalingState = "have-remote-offer"

\* pc.getTransceivers().find(t => t.receiver.track.kind === kind &&
\* t.direction === 'inactive'): its index, 0 when there is none.
FindInactive(kind) ==
    LET hits == { i \in 1..Len(transceivers) :
                    /\ transceivers[i].kind = kind
                    /\ transceivers[i].direction = "inactive" }
    IN  IF hits = {} THEN 0 ELSE CHOOSE i \in hits : \A j \in hits : i <= j

\* Firefox60: pc.getSenders().find(s => s.track === track): its index, or 0.
FindSender(track) ==
    LET hits == { i \in 1..Len(transceivers) : transceivers[i].track = track }
    IN  IF hits = {} THEN 0 ELSE CHOOSE i \in hits : \A j \in hits : i <= j

\* Some sender of the pc has the track (either engine).
HasSender(track) ==
    IF engine = "Firefox60" THEN FindSender(track) # 0 ELSE track \in senders

\* pc.removeTrack(sender): the sender loses its track and a sendonly
\* transceiver becomes inactive.
RemoveTrack(trs, i) ==
    [trs EXCEPT ![i].track = NoTrack,
                ![i].direction = IF @ = "sendonly" THEN "inactive" ELSE @]

\* ------------------------------------------------- the remote SDP builder

\* this._remoteSdp.updateTransportRemoteIceParameters(remoteIceParameters)
UpdateTransportRemoteIceParameters(ice) == remoteIce' = ice

\* this._remoteSdp.createAnswerSdp(localSdpObj): the remote answer carries the
\* ICE parameters the builder holds.
CreateAnswerSdp == [built |-> TRUE, ice |-> remoteIce, entries |-> << >>]

\* this._remoteSdp.createOfferSdp(Array.from(this._receiverInfos.values())),
\* with `held` the ICE parameters the builder holds: the remote offer carries
\* them and describes the entries it is given.
CreateOfferSdp(held, infos) == [built |-> TRUE, ice |-> held, entries |-> infos]

\* ---------------------------------------------------------- capabilities

\* A codec capability: its kind, name, clock rate, channels (0: none given),
\* preferred payload type and, for an rtx codec, the payload type its apt
\* parameter refers to (0: no apt).  Header extensions are left out.
Codec(kind, name, clockRate, channels, pt, apt) ==
    [ kind |-> kind, name |-> name, clockRate |-> clockRate,
      channels |-> channels, preferredPayloadType |-> pt, apt |-> apt ]

\* The codecs of the router's capabilities of the fixtures.
RouterRtpCapabilities ==
    << Codec("audio", "opus", 48000, 2, 100, 0),
       Codec("video", "VP8", 90000, 0, 101, 0),
       Codec("video", "rtx", 90000, 0, 102, 101),
       Codec("video", "H264", 90000, 0, 103, 0),
       Codec("video", "rtx", 90000, 0, 104, 103) >>

\* The codecs of the native capabilities of the fixtures.
NativeRtpCapabilities ==
    << Codec("audio", "opus", 48000, 2, 111, 0),
       Codec("audio", "ISAC", 16000, 1, 103, 0),
       Codec("audio", "CN", 32000, 1, 106, 0),
       Codec("video", "VP8", 90000, 0, 96, 0),
       Codec("video", "rtx", 90000, 0, 97, 96) >>

\* The local capability sets a device may have: the fixture; one with H264
\* and its rtx; audio only, with CN at two clock rates; VP8 without rtx; an
\* rtx whose apt refers to no codec of the set; none at all.
LocalCapabilitySets ==
    { NativeRtpCapabilities,
      << Codec("audio", "opus", 48000, 2, 111, 0),
         Codec("video", "H264", 90000, 0, 98, 0),
         Codec("video", "rtx", 90000, 0, 99, 98),
         Codec("video", "VP8", 90000, 0, 96, 0),
         Codec("video", "rtx", 90000, 0, 97, 96) >>,
      << Codec("audio", "opus", 48000, 2, 111, 0),
         Codec("audio", "CN", 32000, 1, 106, 0),
         Codec("audio", "CN", 16000, 1, 105, 0) >>,
      << Codec("video", "VP8", 90000, 0, 96, 0) >>,
      << Codec("video", "VP8", 90000, 0, 96, 0),
         Codec("video", "rtx", 90000, 0, 97, 120) >>,
      << >> }

\* The capability sets a router may declare: the fixture; one spelling its
\* names in lower case, with CN at two clock rates; one without rtx; one
\* whose only rtx refers to H264; none at all.
RemoteCapabilitySets ==
    { RouterRtpCapabilities,
      << Codec("audio", "CN", 16000, 1, 110, 0),
         Codec("audio", "cn", 32000, 1, 113, 0),
         Codec("video", "vp8", 90000, 0, 101, 0),
         Codec("video", "RTX", 90000, 0, 102, 101) >>,
      << Codec("video", "H264", 90000, 0, 103, 0),
         Codec("audio", "opus", 48000, 2, 100, 0),
         Codec("video", "VP8", 90000, 0, 101, 0) >>,
      << Codec("video", "VP8", 90000, 0, 101, 0),
         Codec("video", "H264", 90000, 0, 103, 0),
         Codec("video", "rtx", 90000, 0, 104, 103) >>,
      << >> }

\* A codec name in lower case.
ToLowerCase(name) ==
    CASE name = "VP8" -> "vp8"
      [] name = "H264" -> "h264"
      [] name = "CN" -> "cn"
      [] name = "ISAC" -> "isac"
      [] name = "RTX" -> "rtx"
      [] OTHER -> name

IsRtx(codec) == ToLowerCase(codec.name) = "rtx"

\* Two codecs match: kind, name (whatever its case), clock rate and channels
\* are equal.
MatchCodecs(a, b) ==
    /\ a.kind = b.kind
    /\ ToLowerCase(a.name) = ToLowerCase(b.name)
    /\ a.clockRate = b.clockRate
    /\ a.channels = b.channels

\* The index of the first codec of `local` that matches r, or 0.
FirstMatch(local, r) ==
    LET hits == { i \in 1..Len(local) : MatchCodecs(local[i], r) }
    IN  IF hits = {} THEN 0 ELSE CHOOSE i \in hits : \A j \in hits : i <= j

\* A local codec paired with the remote codec it matches: it is sent with the
\* local payload type and received with the router's.
ExtendedCodec(l, r) ==
    [ kind |-> l.kind, name |-> l.name, clockRate |-> l.clockRate,
      channels |-> l.channels,
      sendPayloadType |-> l.preferredPayloadType,
      recvPayloadType |-> r.preferredPayloadType ]

\* The first pass: the router's codecs other than rtx, in the router's order,
\* each with the first local codec it matches; those without one are left out.
MatchedCodecs(local, remote) ==
    LET matched == SelectSeq(remote, LAMBDA r : ~IsRtx(r) /\ FirstMatch(local, r) # 0)
    IN  [ i \in 1..Len(matched) |->
            ExtendedCodec(local[FirstMatch(local, matched[i])], matched[i]) ]

\* The local rtx codecs whose apt is the payload type pt.
LocalRtx(local, pt) == SelectSeq(local, LAMBDA l : IsRtx(l) /\ l.apt = pt)

\* An rtx pairing: the local and the router's rtx codec, with the payload
\* types (send side, receive side) their apt parameters refer to.
ExtendedRtx(l, r) ==
    [ kind |-> r.kind,
      sendPayloadType |-> l.preferredPayloadType,
      recvPayloadType |-> r.preferredPayloadType,
      sendApt |-> l.apt, recvApt |-> r.apt ]

\* ComputeExtendedCapabilities as it would be if the second pass kept every
\* rtx codec of the router for which the local set has some rtx codec.
ComputeExtendedCapabilitiesKeepsRtx(local, remote) ==
    LET anyRtx == SelectSeq(local, LAMBDA l : IsRtx(l))
        kept == SelectSeq(remote, LAMBDA r : IsRtx(r) /\ anyRtx # << >>)
    IN  [ codecs |-> MatchedCodecs(local, remote),
          rtx |-> [ i \in 1..Len(kept) |-> ExtendedRtx(anyRtx[1], kept[i]) ] ]

\* computeExtendedCapabilities(local, remote): the matched codecs, and in a
\* second pass the router's rtx codecs whose apt is the receive payload type
\* of a matched codec for whose send payload type the local set has an rtx
\* codec; the other rtx codecs are dropped.
ComputeExtendedCapabilities(local, remote) ==
    LET codecs == MatchedCodecs(local, remote)
        Target(r) == SelectSeq(codecs, LAMBDA c : c.recvPayloadType = r.apt)
        Resolved(r) ==
            /\ IsRtx(r)
            /\ Target(r) # << >>
            /\ LocalRtx(local, Target(r)[1].sendPayloadType) # << >>
        kept == SelectSeq(remote, Resolved)
    IN  [ codecs |-> codecs,
          rtx |-> [ i \in 1..Len(kept) |->
                      ExtendedRtx(
                          LocalRtx(local, Target(kept[i])[1].sendPayloadType)[1],
                          kept[i]) ] ]

\* getSendingRtpParameters(kind, extended): every codec of the kind with its
\* send payload type, each followed by its rtx codec when it has one; no
\* encodings.
GetSendingRtpParameters(kind, extended) ==
    LET ofKind == SelectSeq(extended.codecs, LAMBDA c : c.kind = kind)
        RtxOf(c) == SelectSeq(extended.rtx,
                              LAMBDA x : x.sendApt = c.sendPayloadType)
        Entries(c) ==
            << [ name |-> c.name, clockRate |-> c.clockRate,
                 channels |-> c.channels,
                 payloadType |-> c.sendPayloadType, apt |-> 0 ] >>
            \o (IF RtxOf(c) # << >>
                THEN << [ name |-> "rtx", clockRate |-> c.clockRate,
                          channels |-> 0,
                          payloadType |-> RtxOf(c)[1].sendPayloadType,
                          apt |-> c.sendPayloadType ] >>
                ELSE << >>)
        Project[i \in 1..(Len(ofKind) + 1)] ==
            IF i > Len(ofKind) THEN << >> ELSE Entries(ofKind[i]) \o Project[i + 1]
    IN  [ codecs |-> Project[1], encodings |-> << >> ]

\* SendingRtpParametersByKind as it would be if both kinds were computed for
\* 'audio'.
SendingRtpParametersByKindAudioTwice(extended) ==
    [ audio |-> GetSendingRtpParameters("audio", extended),
      video |-> GetSendingRtpParameters("audio", extended) ]

\* The constructor, direction 'send': sendingRtpParametersByKind.
SendingRtpParametersByKind(extended) ==
    [ audio |-> GetSendingRtpParameters("audio", extended),
      video |-> GetSendingRtpParameters("video", extended) ]

\* utils.clone(): a copy that shares nothing with what it copies.
Clone(v) == v

\* fillRtpParametersForTrack(rtpParameters, localSdpObj, track): the encodings
\* of the track are added to the parameters it is given.
FillRtpParametersForTrack(rtpParameters, track) ==
    [rtpParameters EXCEPT !.encodings = << [track |-> track] >>]

\* send(): the RTP parameters it returns.
SendResult(track) ==
    FillRtpParametersForTrack(Clone(caps.sending[TrackKind(track)]), track)

NoSending == [audio |-> NoRtpParameters, video |-> NoRtpParameters]

\* A device that has loaded its own and the router's capabilities.
Loaded(local, remote) ==
    [ phase |-> "loaded", local |-> local, remote |-> remote,
      extended |-> [codecs |-> << >>, rtx |-> << >>],
      sending |-> NoSending ]

\* The handler constructor: a send handler computes the sending RTP
\* parameters of each kind once.
Construct(dir, c) ==
    [c EXCEPT !.phase = "constructed",
              !.sending = IF dir = "send"
                          THEN SendingRtpParametersByKind(c.extended) ELSE @]

\* A handler constructed from the capability sets.
Constructed(dir, local, remote) ==
    Construct(dir, [Loaded(local, remote) EXCEPT
                      !.phase = "extended",
                      !.extended = ComputeExtendedCapabilities(local, remote)])

\* -------------------------------------------------------- construction

InitHandler ==
    /\ engine \in Engines
    /\ direction \in Directions
    /\ transportReady = FALSE
    /\ tracks = {}
    /\ receiverInfos = << >>
    /\ kinds = {}
    /\ nextRid = 1
    /\ remoteIce = 0
    /\ transceivers = << >>
    /\ senders = {}
    /\ signalingState = "stable"
    /\ iceServers = 0
    /\ iceConnectionState = "new"
    /\ stateChanges = << >>
    /\ received = {}
    /\ appliedMids = {}
    /\ connectEmits = 0
    /\ anyFailed = FALSE
    /\ negotiated = FALSE
    /\ completed = FALSE
    /\ invoked = 0
    /\ ops = [s \in Slots |-> IdleOp]

\* A handler constructed from the capabilities of the fixtures.
Init ==
    /\ InitHandler
    /\ caps = Constructed(direction, NativeRtpCapabilities, RouterRtpCapabilities)

\* A device that has loaded a pair of capability sets and is to construct a
\* send handler.
InitCaps ==
    /\ InitHandler
    /\ direction = "send"
    /\ caps \in { Loaded(local, remote) :
                    local \in LocalCapabilitySets, remote \in RemoteCapabilitySets }

\* What the steps before the construction of the handler leave alone.
DeviceFrame ==
    UNCHANGED << engine, direction, transportReady, tracks, receiverInfos,
                 kinds, nextRid, remoteIce, transceivers, senders,
                 signalingState, iceServers, iceConnectionState, stateChanges,
                 received, appliedMids, connectEmits, anyFailed, negotiated, completed,
                 invoked, ops >>

\* The device computes the extended capabilities.
LoadExtended ==
    /\ caps.phase = "loaded"
    /\ caps' = [caps EXCEPT
                  !.phase = "extended",
                  !.extended = ComputeExtendedCapabilities(caps.local, caps.remote)]
    /\ DeviceFrame

\* The device constructs the handler from the extended capabilities.
ConstructHandler ==
    /\ caps.phase = "extended"
    /\ caps' = Construct(direction, caps)
    /\ DeviceFrame

\* ------------------------------------------------------ _setupTransport

\* Handler._setupTransport up to its await: '@connect' is emitted with the
\* local DTLS parameters.
EmitConnect ==
    /\ connectEmits' = Min(connectEmits + 1, MaxConnect)
    /\ UNCHANGED transportReady

\* ConnectSettled as it would be if _setupTransport set the flag before it
\* awaited the exchange.
ConnectSettledSetsReady(ok) ==
    /\ transportReady' = TRUE
    /\ UNCHANGED connectEmits

\* ConnectSettled as it would be if _setupTransport awaited an acknowledgement
\* that the listeners of '@connect' never give.
ConnectNeverSettled(ok) ==
    /\ FALSE
    /\ UNCHANGED << transportReady, connectEmits >>

\* Handler._setupTransport resumed: the exchange resolved, or was rejected.
ConnectSettled(ok) ==
    /\ transportReady' = (IF ok THEN TRUE ELSE transportReady)
    /\ UNCHANGED connectEmits

\* ------------------------------------------------- Firefox60 SendHandler

IsFirefoxSend == engine = "Firefox60" /\ direction = "send"

\* What no step of a send handler changes, and the note of a failure.
SendFrame(s) ==
    /\ UNCHANGED << handlerId, recvReg, received, appliedMids, iceServers, iceVars >>
    /\ NoteOutcome(s)

Encoding(layer, priority, rid, maxBitrate) ==
    [ layer |-> layer, rid |-> << layer, rid >>, active |-> TRUE,
      priority |-> priority, maxBitrate |-> maxBitrate ]

\* Encodings as it would be if the high layer were capped with the bitrate
\* of the low one.
EncodingsHighCapsLow(sim, rid) ==
    (IF sim.low # 0 THEN << Encoding("low", "high", rid, sim.low) >> ELSE << >>)
    \o (IF sim.medium # 0
        THEN << Encoding("medium", "medium", rid, sim.medium) >> ELSE << >>)
    \o (IF sim.high # 0 THEN << Encoding("high", "low", rid, sim.low) >> ELSE << >>)

\* send(): the encodings built from the simulcast argument, in the order
\* low, medium, high, each present when its field is truthy.
Encodings(sim, rid) ==
    (IF sim.low # 0 THEN << Encoding("low", "high", rid, sim.low) >> ELSE << >>)
    \o (IF sim.medium # 0
        THEN << Encoding("medium", "medium", rid, sim.medium) >> ELSE << >>)
    \o (IF sim.high # 0 THEN << Encoding("high", "low", rid, sim.high) >> ELSE << >>)

\* send(): the catch block.  The transceiver is made inactive (the assignment
\* throws, and is ignored, when no transceiver was obtained or the pc is
\* closed) and the error is thrown again.
FFSendCatch(s, e) ==
    /\ transceivers' =
         IF ops[s].tx # 0 /\ PcOpen
         THEN [transceivers EXCEPT ![ops[s].tx].direction = "inactive"]
         ELSE transceivers
    /\ ops' = [ops EXCEPT ![s] = Failed(ops[s], e)]

\* FFSendEncode as it would be if the RID counter were not incremented.
FFSendEncodeKeepsRid(s, o, trs) ==
    /\ transceivers' = trs
    /\ UNCHANGED nextRid
    /\ IF o.sim.on
       THEN /\ ops' = [ops EXCEPT ![s] =
                         Await([o EXCEPT !.rid = nextRid], "setParameters")]
            /\ UNCHANGED negotiated
       ELSE /\ ops' = [ops EXCEPT ![s] =
                         Await([o EXCEPT !.round = TRUE], "createOffer")]
            /\ negotiated' = TRUE

\* send(): from `if (simulcast)` to the next await.  With simulcast the
\* encodings take the current RID counter, the counter is incremented and
\* sender.setParameters() is awaited; without, pc.createOffer() is awaited.
FFSendEncode(s, o, trs) ==
    /\ transceivers' = trs
    /\ IF o.sim.on
       THEN /\ nextRid' = nextRid + 1
            /\ ops' = [ops EXCEPT ![s] =
                         Await([o EXCEPT !.rid = nextRid], "setParameters")]
            /\ UNCHANGED negotiated
       ELSE /\ ops' = [ops EXCEPT ![s] =
                         Await([o EXCEPT !.round = TRUE], "createOffer")]
            /\ negotiated' = TRUE
            /\ UNCHANGED nextRid

\* send({ track, simulcast }) up to its first await.  On a closed pc the
\* assignment of transceiver.direction and pc.addTransceiver() throw.
FFSend(s, track, simulcast) ==
    LET o == [NewOp(s, "send", track) EXCEPT !.sim = simulcast]
        i == FindInactive(TrackKind(track))
    IN  /\ IsFirefoxSend
        /\ Settled(s)
        /\ Invoke
        /\ simulcast.on => nextRid < MaxRid
        /\ (track \notin tracks /\ i = 0) => Len(transceivers) < MaxTransceivers
        /\ IF track \in tracks
           THEN /\ ops' = [ops EXCEPT ![s] = Failed(o, "DuplicatedError")]
                /\ UNCHANGED << transceivers, nextRid, negotiated >>
           ELSE IF ~PcOpen
           THEN /\ ops' = [ops EXCEPT ![s] = Failed(o, "InvalidStateError")]
                /\ UNCHANGED << transceivers, nextRid, negotiated >>
           ELSE IF i # 0
           THEN /\ transceivers' = [transceivers EXCEPT ![i].direction = "sendonly"]
                /\ ops' = [ops EXCEPT ![s] =
                             Await([o EXCEPT !.tx = i], "setParametersReset")]
                /\ UNCHANGED << nextRid, negotiated >>
           ELSE FFSendEncode(s, [o EXCEPT !.tx = Len(transceivers) + 1],
                    Append(transceivers,
                           [ kind |-> TrackKind(track), track |-> track,
                             direction |-> "sendonly", encodings |-> << >> ]))
        /\ UNCHANGED << tracks, remoteIce, senders, signalingState, connectVars >>
        /\ SendFrame(s)

\* send(): rtpSender.setParameters({ ...parameters, encodings: [] }) settled.
FFSendSetParametersReset(s) ==
    /\ IsFirefoxSend
    /\ At(s, "send", "setParametersReset")
    /\ UNCHANGED invoked
    /\ \E ok \in BOOLEAN :
         IF ok
         THEN /\ transceivers' = [transceivers EXCEPT ![ops[s].tx].encodings = << >>]
              /\ ops' = [ops EXCEPT ![s] = Await(ops[s], "replaceTrack")]
         ELSE FFSendCatch(s, "setParameters")
    /\ UNCHANGED << tracks, nextRid, negotiated, remoteIce, senders,
                    signalingState, connectVars >>
    /\ SendFrame(s)

\* send(): rtpSender.replaceTrack(track) settled.
FFSendReplaceTrack(s) ==
    /\ IsFirefoxSend
    /\ At(s, "send", "replaceTrack")
    /\ UNCHANGED invoked
    /\ \E ok \in BOOLEAN :
         IF ok
         THEN FFSendEncode(s, ops[s],
                  [transceivers EXCEPT ![ops[s].tx].track = ops[s].arg])
         ELSE FFSendCatch(s, "replaceTrack") /\ UNCHANGED << nextRid, negotiated >>
    /\ UNCHANGED << tracks, remoteIce, senders, signalingState, connectVars >>
    /\ SendFrame(s)

\* send(): sender.setParameters(newParameters) settled.
FFSendSetParameters(s) ==
    /\ IsFirefoxSend
    /\ At(s, "send", "setParameters")
    /\ UNCHANGED invoked
    /\ \E ok \in BOOLEAN :
         IF ok
         THEN /\ transceivers' =
                   [transceivers EXCEPT ![ops[s].tx].encodings =
                                            Encodings(ops[s].sim, ops[s].rid)]
              /\ ops' = [ops EXCEPT ![s] =
                           Await([ops[s] EXCEPT !.round = TRUE], "createOffer")]
              /\ negotiated' = TRUE
         ELSE FFSendCatch(s, "setParameters") /\ UNCHANGED negotiated
    /\ UNCHANGED << tracks, nextRid, remoteIce, senders, signalingState,
                    connectVars >>
    /\ SendFrame(s)

\* send(): pc.createOffer() settled.
FFSendCreateOffer(s) ==
    /\ IsFirefoxSend
    /\ At(s, "send", "createOffer")
    /\ UNCHANGED invoked
    /\ \E ok \in BOOLEAN :
         IF ok /\ PcOpen
         THEN /\ ops' = [ops EXCEPT ![s] =
                           Await([ops[s] EXCEPT !.desc = "desc"],
                                 "setLocalDescription")]
              /\ UNCHANGED transceivers
         ELSE FFSendCatch(s, "createOffer")
    /\ UNCHANGED << tracks, nextRid, negotiated, remoteIce, senders,
                    signalingState, connectVars >>
    /\ SendFrame(s)

\* send(): pc.setLocalDescription(offer) settled; then _setupTransport when
\* the transport is not ready, else the remote answer is built and applied.
FFSendSetLocalDescription(s) ==
    /\ IsFirefoxSend
    /\ At(s, "send", "setLocalDescription")
    /\ UNCHANGED invoked
    /\ \E ok \in BOOLEAN :
         IF ok /\ SetLocalOfferOk
         THEN /\ signalingState' = "have-local-offer"
              /\ UNCHANGED transceivers
              /\ IF ~transportReady
                 THEN /\ EmitConnect
                      /\ ops' = [ops EXCEPT ![s] =
                                   Await([ops[s] EXCEPT !.setup = TRUE], "connect")]
                 ELSE /\ UNCHANGED connectVars
                      /\ ops' = [ops EXCEPT ![s] =
                                   Await([ops[s] EXCEPT !.sdp = CreateAnswerSdp],
                                         "setRemoteDescription")]
         ELSE /\ FFSendCatch(s, "setLocalDescription")
              /\ UNCHANGED << signalingState, connectVars >>
    /\ UNCHANGED << tracks, nextRid, negotiated, remoteIce, senders >>
    /\ SendFrame(s)

\* send(): the '@connect' exchange of _setupTransport settled.
FFSendConnect(s) ==
    /\ IsFirefoxSend
    /\ At(s, "send", "connect")
    /\ UNCHANGED invoked
    /\ \E ok \in BOOLEAN :
         /\ ConnectSettled(ok)
         /\ IF ok
            THEN /\ ops' = [ops EXCEPT ![s] =
                              Await([ops[s] EXCEPT !.sdp = CreateAnswerSdp],
                                    "setRemoteDescription")]
                 /\ UNCHANGED transceivers
            ELSE FFSendCatch(s, "connect")
    /\ UNCHANGED << tracks, nextRid, negotiated, remoteIce, senders,
                    signalingState >>
    /\ SendFrame(s)

\* send(): pc.setRemoteDescription(answer) settled; on success the track is
\* registered and the RTP parameters are returned.
FFSendSetRemoteDescription(s) ==
    /\ IsFirefoxSend
    /\ At(s, "send", "setRemoteDescription")
    /\ UNCHANGED invoked
    /\ \E ok \in BOOLEAN :
         IF ok /\ SetRemoteAnswerOk
         THEN /\ signalingState' = "stable"
              /\ tracks' = tracks \cup {ops[s].arg}
              /\ ops' = [ops EXCEPT ![s] =
                           Done([ops[s] EXCEPT !.result = SendResult(ops[s].arg)])]
              /\ UNCHANGED transceivers
         ELSE /\ FFSendCatch(s, "setRemoteDescription")
              /\ UNCHANGED << signalingState, tracks >>
    /\ UNCHANGED << nextRid, negotiated, remoteIce, senders, connectVars >>
    /\ SendFrame(s)

FFSendSteps(s) ==
    \/ \E t \in Tracks : \E sim \in SimulcastsFor(t) : FFSend(s, t, sim)
    \/ FFSendSetParametersReset(s)
    \/ FFSendReplaceTrack(s)
    \/ FFSendSetParameters(s)
    \/ FFSendCreateOffer(s)
    \/ FFSendSetLocalDescription(s)
    \/ FFSendConnect(s)
    \/ FFSendSetRemoteDescription(s)

\* stopSending({ track }) up to its first await.  pc.removeTrack() throws on
\* a closed pc.
FFStopSending(s, track) ==
    LET o == NewOp(s, "stopSending", track)
        i == FindSender(track)
    IN  /\ IsFirefoxSend
        /\ Settled(s)
        /\ Invoke
        /\ IF i = 0
           THEN /\ ops' = [ops EXCEPT ![s] = Failed(o, "NotFound")]
                /\ UNCHANGED << transceivers, negotiated >>
           ELSE IF ~PcOpen
           THEN /\ ops' = [ops EXCEPT ![s] = Failed(o, "InvalidStateError")]
                /\ UNCHANGED << transceivers, negotiated >>
           ELSE /\ transceivers' = RemoveTrack(transceivers, i)
                /\ ops' = [ops EXCEPT ![s] =
                             Await([o EXCEPT !.tx = i, !.round = TRUE], "createOffer")]
                /\ negotiated' = TRUE
        /\ UNCHANGED << tracks, nextRid, remoteIce, senders, signalingState,
                        connectVars >>
        /\ SendFrame(s)

\* stopSending(): pc.createOffer() settled.
FFStopSendingCreateOffer(s) ==
    /\ IsFirefoxSend
    /\ At(s, "stopSending", "createOffer")
    /\ UNCHANGED invoked
    /\ \E ok \in BOOLEAN :
         ops' = [ops EXCEPT ![s] =
                   IF ok /\ PcOpen THEN Await([ops[s] EXCEPT !.desc = "desc"],
                                    "setLocalDescription")
                   ELSE Failed(ops[s], "createOffer")]
    /\ UNCHANGED << tracks, nextRid, negotiated, remoteIce, sendPc,
                    signalingState, connectVars >>
    /\ SendFrame(s)

\* stopSending(): pc.setLocalDescription(offer) settled; the answer is built,
\* the track leaves _tracks and pc.setRemoteDescription(answer) is awaited.
FFStopSendingSetLocalDescription(s) ==
    /\ IsFirefoxSend
    /\ At(s, "stopSending", "setLocalDescription")
    /\ UNCHANGED invoked
    /\ \E ok \in BOOLEAN :
         IF ok /\ SetLocalOfferOk
         THEN /\ signalingState' = "have-local-offer"
              /\ tracks' = tracks \ {ops[s].arg}
              /\ ops' = [ops EXCEPT ![s] =
                           Await([ops[s] EXCEPT !.sdp = CreateAnswerSdp],
                                 "setRemoteDescription")]
         ELSE /\ ops' = [ops EXCEPT ![s] = Failed(ops[s], "setLocalDescription")]
              /\ UNCHANGED << signalingState, tracks >>
    /\ UNCHANGED << nextRid, negotiated, remoteIce, sendPc, connectVars >>
    /\ SendFrame(s)

\* stopSending(): pc.setRemoteDescription(answer) settled.
FFStopSendingSetRemoteDescription(s) ==
    /\ IsFirefoxSend
    /\ At(s, "stopSending", "setRemoteDescription")
    /\ UNCHANGED invoked
    /\ \E ok \in BOOLEAN :
         IF ok /\ SetRemoteAnswerOk
         THEN /\ signalingState' = "stable"
              /\ ops' = [ops EXCEPT ![s] = Done(ops[s])]
         ELSE /\ ops' = [ops EXCEPT ![s] = Failed(ops[s], "setRemoteDescription")]
              /\ UNCHANGED signalingState
    /\ UNCHANGED << tracks, nextRid, negotiated, remoteIce, sendPc, connectVars >>
    /\ SendFrame(s)

FFStopSendingSteps(s) ==
    \/ \E t \in Tracks : FFStopSending(s, t)
    \/ FFStopSendingCreateOffer(s)
    \/ FFStopSendingSetLocalDescription(s)
    \/ FFStopSendingSetRemoteDescription(s)

\* ----------------------------------------- SendHandler.restartIce (both)

\* SendRestartIce as it would be without the return on a transport that is
\* not ready.
SendRestartIceAlways(s, ice) ==
    LET o == [NewOp(s, "restartIce", "") EXCEPT !.ice = ice]
    IN  /\ direction = "send"
        /\ Settled(s)
        /\ Invoke
        /\ UpdateTransportRemoteIceParameters(ice)
        /\ ops' = [ops EXCEPT ![s] =
                     Await([o EXCEPT !.desc = "promise", !.round = TRUE],
                           "setLocalDescription")]
        /\ negotiated' = TRUE
        /\ UNCHANGED << tracks, nextRid, sendPc, signalingState, connectVars >>
        /\ SendFrame(s)

\* restartIce({ remoteIceParameters }) up to its first await.  The new
\* parameters are stored; when the transport is not ready it returns.  Else
\* pc.createOffer({ iceRestart: true }) is called and NOT awaited: the
\* pending promise is what pc.setLocalDescription() is given.
SendRestartIce(s, ice) ==
    LET o == [NewOp(s, "restartIce", "") EXCEPT !.ice = ice]
    IN  /\ direction = "send"
        /\ Settled(s)
        /\ Invoke
        /\ UpdateTransportRemoteIceParameters(ice)
        /\ IF ~transportReady
           THEN /\ ops' = [ops EXCEPT ![s] = Done(o)]
                /\ UNCHANGED negotiated
           ELSE /\ ops' = [ops EXCEPT ![s] =
                             Await([o EXCEPT !.desc = "promise", !.round = TRUE],
                                   "setLocalDescription")]
                /\ negotiated' = TRUE
        /\ UNCHANGED << tracks, nextRid, sendPc, signalingState, connectVars >>
        /\ SendFrame(s)

\* restartIce(): pc.setLocalDescription(offer) settled.
SendRestartIceSetLocalDescription(s) ==
    /\ direction = "send"
    /\ At(s, "restartIce", "setLocalDescription")
    /\ UNCHANGED invoked
    /\ \E ok \in BOOLEAN :
         IF ok /\ SetLocalOfferOk
         THEN /\ signalingState' = "have-local-offer"
              /\ ops' = [ops EXCEPT ![s] =
                           Await([ops[s] EXCEPT !.sdp = CreateAnswerSdp],
                                 "setRemoteDescription")]
         ELSE /\ ops' = [ops EXCEPT ![s] = Failed(ops[s], "setLocalDescription")]
              /\ UNCHANGED signalingState
    /\ UNCHANGED << tracks, nextRid, negotiated, remoteIce, sendPc, connectVars >>
    /\ SendFrame(s)

\* restartIce(): pc.setRemoteDescription(answer) settled.
SendRestartIceSetRemoteDescription(s) ==
    /\ direction = "send"
    /\ At(s, "restartIce", "setRemoteDescription")
    /\ UNCHANGED invoked
    /\ \E ok \in BOOLEAN :
         IF ok /\ SetRemoteAnswerOk
         THEN /\ signalingState' = "stable"
              /\ ops' = [ops EXCEPT ![s] = Done(ops[s])]
         ELSE /\ ops' = [ops EXCEPT ![s] = Failed(ops[s], "setRemoteDescription")]
              /\ UNCHANGED signalingState
    /\ UNCHANGED << tracks, nextRid, negotiated, remoteIce, sendPc, connectVars >>
    /\ SendFrame(s)

SendRestartIceSteps(s) ==
    \/ \E ice \in IceParams : SendRestartIce(s, ice)
    \/ SendRestartIceSetLocalDescription(s)
    \/ SendRestartIceSetRemoteDescription(s)

\* -------------------------------------------------- Safari11 SendHandler

IsSafariSend == engine = "Safari11" /\ direction = "send"

\* SFSendCatch as it would be without the removal from the local stream.
SFSendCatchKeepsTrack(s, e) ==
    /\ tracks' = tracks
    /\ senders' = IF ops[s].tx # 0 /\ PcOpen THEN senders \ {ops[s].arg}
                   ELSE senders
    /\ ops' = [ops EXCEPT ![s] = Failed(ops[s], e)]

\* send(): the catch block.  The track leaves the local stream, the sender
\* is removed from the pc (the call throws, and is ignored, when pc.addTrack()
\* gave no sender or the pc is closed) and the error is thrown again.
SFSendCatch(s, e) ==
    /\ tracks' = tracks \ {ops[s].arg}
    /\ senders' = IF ops[s].tx # 0 /\ PcOpen THEN senders \ {ops[s].arg}
                   ELSE senders
    /\ ops' = [ops EXCEPT ![s] = Failed(ops[s], e)]

\* send({ track }) up to its first await.  pc.addTrack() throws when a sender
\* of the pc already has the track or the pc is closed; the catch block then
\* takes the track out of the stream again.
SFSend(s, track) ==
    LET o == NewOp(s, "send", track)
    IN  /\ IsSafariSend
        /\ Settled(s)
        /\ Invoke
        /\ IF track \in tracks
           THEN /\ ops' = [ops EXCEPT ![s] = Failed(o, "DuplicatedError")]
                /\ UNCHANGED << tracks, senders, negotiated >>
           ELSE IF track \in senders \/ ~PcOpen
           THEN /\ ops' = [ops EXCEPT ![s] = Failed(o, "addTrack")]
                /\ UNCHANGED << tracks, senders, negotiated >>
           ELSE /\ tracks' = tracks \cup {track}
                /\ senders' = senders \cup {track}
                /\ ops' = [ops EXCEPT ![s] =
                             Await([o EXCEPT !.tx = 1, !.round = TRUE], "createOffer")]
                /\ negotiated' = TRUE
        /\ UNCHANGED << nextRid, remoteIce, transceivers, signalingState,
                        connectVars >>
        /\ SendFrame(s)

\* send(): pc.createOffer() settled.
SFSendCreateOffer(s) ==
    /\ IsSafariSend
    /\ At(s, "send", "createOffer")
    /\ UNCHANGED invoked
    /\ \E ok \in BOOLEAN :
         IF ok /\ PcOpen
         THEN /\ ops' = [ops EXCEPT ![s] =
                           Await([ops[s] EXCEPT !.desc = "desc"],
                                 "setLocalDescription")]
              /\ UNCHANGED << tracks, senders >>
         ELSE SFSendCatch(s, "createOffer")
    /\ UNCHANGED << nextRid, negotiated, remoteIce, transceivers,
                    signalingState, connectVars >>
    /\ SendFrame(s)

\* send(): pc.setLocalDescription(offer) settled; then _setupTransport when
\* the transport is not ready, else the remote answer is built and applied.
SFSendSetLocalDescription(s) ==
    /\ IsSafariSend
    /\ At(s, "send", "setLocalDescription")
    /\ UNCHANGED invoked
    /\ \E ok \in BOOLEAN :
         IF ok /\ SetLocalOfferOk
         THEN /\ signalingState' = "have-local-offer"
              /\ UNCHANGED << tracks, senders >>
              /\ IF ~transportReady
                 THEN /\ EmitConnect
                      /\ ops' = [ops EXCEPT ![s] =
                                   Await([ops[s] EXCEPT !.setup = TRUE], "connect")]
                 ELSE /\ UNCHANGED connectVars
                      /\ ops' = [ops EXCEPT ![s] =
                                   Await([ops[s] EXCEPT !.sdp = CreateAnswerSdp],
                                         "setRemoteDescription")]
         ELSE /\ SFSendCatch(s, "setLocalDescription")
              /\ UNCHANGED << signalingState, connectVars >>
    /\ UNCHANGED << nextRid, negotiated, remoteIce, transceivers >>
    /\ SendFrame(s)

\* send(): the '@connect' exchange of _setupTransport settled.
SFSendConnect(s) ==
    /\ IsSafariSend
    /\ At(s, "send", "connect")
    /\ UNCHANGED invoked
    /\ \E ok \in BOOLEAN :
         /\ ConnectSettled(ok)
         /\ IF ok
            THEN /\ ops' = [ops EXCEPT ![s] =
                              Await([ops[s] EXCEPT !.sdp = CreateAnswerSdp],
                                    "setRemoteDescription")]
                 /\ UNCHANGED << tracks, senders >>
            ELSE SFSendCatch(s, "connect")
    /\ UNCHANGED << nextRid, negotiated, remoteIce, transceivers, signalingState >>
    /\ SendFrame(s)

\* send(): pc.setRemoteDescription(answer) settled; on success the RTP
\* parameters are returned.
SFSendSetRemoteDescription(s) ==
    /\ IsSafariSend
    /\ At(s, "send", "setRemoteDescription")
    /\ UNCHANGED invoked
    /\ \E ok \in BOOLEAN :
         IF ok /\ SetRemoteAnswerOk
         THEN /\ signalingState' = "stable"
              /\ ops' = [ops EXCEPT ![s] =
                           Done([ops[s] EXCEPT !.result = SendResult(ops[s].arg)])]
              /\ UNCHANGED << tracks, senders >>
         ELSE /\ SFSendCatch(s, "setRemoteDescription")
              /\ UNCHANGED signalingState
    /\ UNCHANGED << nextRid, negotiated, remoteIce, transceivers, connectVars >>
    /\ SendFrame(s)

SFSendSteps(s) ==
    \/ \E t \in Tracks : SFSend(s, t)
    \/ SFSendCreateOffer(s)
    \/ SFSendSetLocalDescription(s)
    \/ SFSendConnect(s)
    \/ SFSendSetRemoteDescription(s)

\* stopSending({ track }) up to its first await.  pc.removeTrack() throws on
\* a closed pc.
SFStopSending(s, track) ==
    LET o == NewOp(s, "stopSending", track)
    IN  /\ IsSafariSend
        /\ Settled(s)
        /\ Invoke
        /\ IF track \notin senders
           THEN /\ ops' = [ops EXCEPT ![s] = Failed(o, "NotFound")]
                /\ UNCHANGED << tracks, senders, negotiated >>
           ELSE IF ~PcOpen
           THEN /\ ops' = [ops EXCEPT ![s] = Failed(o, "InvalidStateError")]
                /\ UNCHANGED << tracks, senders, negotiated >>
           ELSE /\ senders' = senders \ {track}
                /\ tracks' = tracks \ {track}
                /\ ops' = [ops EXCEPT ![s] =
                             Await([o EXCEPT !.tx = 1, !.round = TRUE], "createOffer")]
                /\ negotiated' = TRUE
        /\ UNCHANGED << nextRid, remoteIce, transceivers, signalingState,
                        connectVars >>
        /\ SendFrame(s)

\* stopSending(): pc.createOffer() settled.
SFStopSendingCreateOffer(s) ==
    /\ IsSafariSend
    /\ At(s, "stopSending", "createOffer")
    /\ UNCHANGED invoked
    /\ \E ok \in BOOLEAN :
         ops' = [ops EXCEPT ![s] =
                   IF ok /\ PcOpen THEN Await([ops[s] EXCEPT !.desc = "desc"],
                                    "setLocalDescription")
                   ELSE Failed(ops[s], "createOffer")]
    /\ UNCHANGED << tracks, nextRid, negotiated, remoteIce, sendPc,
                    signalingState, connectVars >>
    /\ SendFrame(s)

\* stopSending(): pc.setLocalDescription(offer) settled.  Its rejection is
\* caught: with no track left in the local stream it is logged and the
\* operation returns, else it is thrown again.  After success the operation
\* returns when the pc is 'stable', else the answer is built and applied.
SFStopSendingSetLocalDescription(s) ==
    /\ IsSafariSend
    /\ At(s, "stopSending", "setLocalDescription")
    /\ UNCHANGED invoked
    /\ \E ok \in BOOLEAN :
         IF ok /\ SetLocalOfferOk
         THEN /\ signalingState' = "have-local-offer"
              /\ ops' = [ops EXCEPT ![s] =
                           IF signalingState' = "stable"
                           THEN Done(ops[s])
                           ELSE Await([ops[s] EXCEPT !.sdp = CreateAnswerSdp],
                                      "setRemoteDescription")]
         ELSE /\ ops' = [ops EXCEPT ![s] =
                           IF tracks = {}
                           THEN Done([ops[s] EXCEPT !.swallowed = TRUE])
                           ELSE Failed(ops[s], "setLocalDescription")]
              /\ UNCHANGED signalingState
    /\ UNCHANGED << tracks, nextRid, negotiated, remoteIce, sendPc, connectVars >>
    /\ SendFrame(s)

\* stopSending(): pc.setRemoteDescription(answer) settled.
SFStopSendingSetRemoteDescription(s) ==
    /\ IsSafariSend
    /\ At(s, "stopSending", "setRemoteDescription")
    /\ UNCHANGED invoked
    /\ \E ok \in BOOLEAN :
         IF ok /\ SetRemoteAnswerOk
         THEN /\ signalingState' = "stable"
              /\ ops' = [ops EXCEPT ![s] = Done(ops[s])]
         ELSE /\ ops' = [ops EXCEPT ![s] = Failed(ops[s], "setRemoteDescription")]
              /\ UNCHANGED signalingState
    /\ UNCHANGED << tracks, nextRid, negotiated, remoteIce, sendPc, connectVars >>
    /\ SendFrame(s)

SFStopSendingSteps(s) ==
    \/ \E t \in Tracks : SFStopSending(s, t)
    \/ SFStopSendingCreateOffer(s)
    \/ SFStopSendingSetLocalDescription(s)
    \/ SFStopSendingSetRemoteDescription(s)

\* ------------------------------------------------------------ RecvHandler

IsFirefoxRecv == engine = "Firefox60" /\ direction = "recv"
IsSafariRecv == engine = "Safari11" /\ direction = "recv"

\* What no step of a recv handler changes, and the note of a failure.
RecvFrame(s) ==
    /\ UNCHANGED << handlerId, sendReg, sendPc, iceServers, iceVars >>
    /\ NoteOutcome(s)

\* HasInfo as it would be if the map never reported an id.
HasInfoNever(infos, id) == infos # infos

\* this._receiverInfos.has(id)
HasInfo(infos, id) == \E i \in 1..Len(infos) : infos[i].id = id

\* this._receiverInfos.delete(id)
DeleteInfo(infos, id) == SelectSeq(infos, LAMBDA e : e.id # id)

\* receiverInfo.closed = true, on the entry of id
CloseInfo(infos, id) ==
    [i \in 1..Len(infos) |->
        IF infos[i].id = id THEN [infos[i] EXCEPT !.closed = TRUE] ELSE infos[i]]

\* The receivers a remote offer describes: Firefox60 by mid (`${kind[0]}-${id}`),
\* Safari11 by track id (`${kind}-${id}`).
Described(entries) == { << entries[i].kind, entries[i].id >> : i \in 1..Len(entries) }

\* Firefox60 receiverInfo.mid: `${kind[0]}-${id}`
Mid(e) == << IF e.kind = "audio" THEN "a" ELSE "v", e.id >>

\* The mids a remote offer describes, each with its position in the offer.
MidPositions(entries) == { << Mid(entries[i]), i >> : i \in 1..Len(entries) }

\* pc.setRemoteDescription(offer) resolved: what the offer described, and
\* where, is kept for a Firefox60 recv handler.
OfferApplied(entries) ==
    appliedMids' = IF engine = "Firefox60"
                   THEN appliedMids \cup MidPositions(entries)
                   ELSE appliedMids

\* Safari11 RecvHandler.receive reads this._transportUpdated, a property that
\* nothing assigns: it is undefined.
TransportUpdated == FALSE

\* receive(): the lookup of the new transceiver (Firefox60, by mid) or
\* receiver (Safari11, by track id) that ends the operation.
ReceiveLookup(o) ==
    IF << o.kind, o.arg >> \in received
    THEN Done(o)
    ELSE Failed(o, "remote track not found")

\* receive({ id, kind, rtpParameters }) up to its first await.
FFReceive(s, id, kind) ==
    LET o == [NewOp(s, "receive", id) EXCEPT !.kind = kind]
        infos == Append(receiverInfos, [id |-> id, kind |-> kind, closed |-> FALSE])
    IN  /\ IsFirefoxRecv
        /\ Settled(s)
        /\ Invoke
        /\ IF HasInfo(receiverInfos, id)
           THEN /\ ops' = [ops EXCEPT ![s] = Failed(o, "DuplicatedError")]
                /\ UNCHANGED << receiverInfos, negotiated >>
           ELSE /\ receiverInfos' = infos
                /\ ops' = [ops EXCEPT ![s] =
                             Await([o EXCEPT !.sdp = CreateOfferSdp(remoteIce, infos),
                                             !.round = TRUE],
                                   "setRemoteDescription")]
                /\ negotiated' = TRUE
        /\ UNCHANGED << kinds, remoteIce, signalingState, received, appliedMids, connectVars >>
        /\ RecvFrame(s)

\* receive(): pc.setRemoteDescription(offer) settled.  Its rejection is
\* caught: the new entry is deleted and the error thrown again.
FFReceiveSetRemoteDescription(s) ==
    /\ IsFirefoxRecv
    /\ At(s, "receive", "setRemoteDescription")
    /\ UNCHANGED invoked
    /\ \E ok \in BOOLEAN :
         IF ok /\ SetRemoteOfferOk
         THEN /\ signalingState' = "have-remote-offer"
              /\ received' = received \cup Described(ops[s].sdp.entries)
              /\ OfferApplied(ops[s].sdp.entries)
              /\ ops' = [ops EXCEPT ![s] = Await(ops[s], "createAnswer")]
              /\ UNCHANGED receiverInfos
         ELSE /\ receiverInfos' = DeleteInfo(receiverInfos, ops[s].arg)
              /\ ops' = [ops EXCEPT ![s] = Failed(ops[s], "setRemoteDescription")]
              /\ UNCHANGED << signalingState, received, appliedMids >>
    /\ UNCHANGED << kinds, remoteIce, negotiated, connectVars >>
    /\ RecvFrame(s)

\* receive(): pc.createAnswer() settled.
FFReceiveCreateAnswer(s) ==
    /\ IsFirefoxRecv
    /\ At(s, "receive", "createAnswer")
    /\ UNCHANGED invoked
    /\ \E ok \in BOOLEAN :
         ops' = [ops EXCEPT ![s] =
                   IF ok /\ AnswerOk
                   THEN Await([ops[s] EXCEPT !.desc = "desc"], "setLocalDescription")
                   ELSE Failed(ops[s], "createAnswer")]
    /\ UNCHANGED << recvReg, remoteIce, negotiated, signalingState, received, appliedMids,
                    connectVars >>
    /\ RecvFrame(s)

\* receive(): pc.setLocalDescription(answer) settled; then _setupTransport
\* when this._transportReady is false, else the lookup.
FFReceiveSetLocalDescription(s) ==
    /\ IsFirefoxRecv
    /\ At(s, "receive", "setLocalDescription")
    /\ UNCHANGED invoked
    /\ \E ok \in BOOLEAN :
         IF ok /\ AnswerOk
         THEN /\ signalingState' = "stable"
              /\ IF ~transportReady
                 THEN /\ EmitConnect
                      /\ ops' = [ops EXCEPT ![s] =
                                   Await([ops[s] EXCEPT !.setup = TRUE], "connect")]
                 ELSE /\ UNCHANGED connectVars
                      /\ ops' = [ops EXCEPT ![s] = ReceiveLookup(ops[s])]
         ELSE /\ ops' = [ops EXCEPT ![s] = Failed(ops[s], "setLocalDescription")]
              /\ UNCHANGED << signalingState, connectVars >>
    /\ UNCHANGED << recvReg, remoteIce, negotiated, received, appliedMids >>
    /\ RecvFrame(s)

\* receive(): the '@connect' exchange of _setupTransport settled.
FFReceiveConnect(s) ==
    /\ IsFirefoxRecv
    /\ At(s, "receive", "connect")
    /\ UNCHANGED invoked
    /\ \E ok \in BOOLEAN :
         /\ ConnectSettled(ok)
         /\ ops' = [ops EXCEPT ![s] =
                      IF ok THEN ReceiveLookup(ops[s]) ELSE Failed(ops[s], "connect")]
    /\ UNCHANGED << recvReg, remoteIce, negotiated, signalingState, received, appliedMids >>
    /\ RecvFrame(s)

FFReceiveSteps(s) ==
    \/ \E id \in Ids, kind \in Kinds : FFReceive(s, id, kind)
    \/ FFReceiveSetRemoteDescription(s)
    \/ FFReceiveCreateAnswer(s)
    \/ FFReceiveSetLocalDescription(s)
    \/ FFReceiveConnect(s)

\* Safari11 receive({ id, kind, rtpParameters }) up to its first await.
SFReceive(s, id, kind) ==
    LET o == [NewOp(s, "receive", id) EXCEPT !.kind = kind]
        infos == Append(receiverInfos, [id |-> id, kind |-> kind, closed |-> FALSE])
    IN  /\ IsSafariRecv
        /\ Settled(s)
        /\ Invoke
        /\ IF HasInfo(receiverInfos, id)
           THEN /\ ops' = [ops EXCEPT ![s] = Failed(o, "DuplicatedError")]
                /\ UNCHANGED << receiverInfos, kinds, negotiated >>
           ELSE /\ receiverInfos' = infos
                /\ kinds' = kinds \cup {kind}
                /\ ops' = [ops EXCEPT ![s] =
                             Await([o EXCEPT !.sdp = CreateOfferSdp(remoteIce, infos),
                                             !.round = TRUE],
                                   "setRemoteDescription")]
                /\ negotiated' = TRUE
        /\ UNCHANGED << remoteIce, signalingState, received, appliedMids, connectVars >>
        /\ RecvFrame(s)

\* receive(): pc.setRemoteDescription(offer) settled.  Its rejection is
\* caught: the new entry is deleted and the error thrown again.
SFReceiveSetRemoteDescription(s) ==
    /\ IsSafariRecv
    /\ At(s, "receive", "setRemoteDescription")
    /\ UNCHANGED invoked
    /\ \E ok \in BOOLEAN :
         IF ok /\ SetRemoteOfferOk
         THEN /\ signalingState' = "have-remote-offer"
              /\ received' = received \cup Described(ops[s].sdp.entries)
              /\ OfferApplied(ops[s].sdp.entries)
              /\ ops' = [ops EXCEPT ![s] = Await(ops[s], "createAnswer")]
              /\ UNCHANGED receiverInfos
         ELSE /\ receiverInfos' = DeleteInfo(receiverInfos, ops[s].arg)
              /\ ops' = [ops EXCEPT ![s] = Failed(ops[s], "setRemoteDescription")]
              /\ UNCHANGED << signalingState, received, appliedMids >>
    /\ UNCHANGED << kinds, remoteIce, negotiated, connectVars >>
    /\ RecvFrame(s)

\* receive(): pc.createAnswer() settled.
SFReceiveCreateAnswer(s) ==
    /\ IsSafariRecv
    /\ At(s, "receive", "createAnswer")
    /\ UNCHANGED invoked
    /\ \E ok \in BOOLEAN :
         ops' = [ops EXCEPT ![s] =
                   IF ok /\ AnswerOk
                   THEN Await([ops[s] EXCEPT !.desc = "desc"], "setLocalDescription")
                   ELSE Failed(ops[s], "createAnswer")]
    /\ UNCHANGED << recvReg, remoteIce, negotiated, signalingState, received, appliedMids,
                    connectVars >>
    /\ RecvFrame(s)

\* receive(): pc.setLocalDescription(answer) settled; then _setupTransport
\* when this._transportUpdated is falsy, else the lookup.
SFReceiveSetLocalDescription(s) ==
    /\ IsSafariRecv
    /\ At(s, "receive", "setLocalDescription")
    /\ UNCHANGED invoked
    /\ \E ok \in BOOLEAN :
         IF ok /\ AnswerOk
         THEN /\ signalingState' = "stable"
              /\ IF ~TransportUpdated
                 THEN /\ EmitConnect
                      /\ ops' = [ops EXCEPT ![s] =
                                   Await([ops[s] EXCEPT !.setup = TRUE], "connect")]
                 ELSE /\ UNCHANGED connectVars
                      /\ ops' = [ops EXCEPT ![s] = ReceiveLookup(ops[s])]
         ELSE /\ ops' = [ops EXCEPT ![s] = Failed(ops[s], "setLocalDescription")]
              /\ UNCHANGED << signalingState, connectVars >>
    /\ UNCHANGED << recvReg, remoteIce, negotiated, received, appliedMids >>
    /\ RecvFrame(s)

\* receive(): the '@connect' exchange of _setupTransport settled.
SFReceiveConnect(s) ==
    /\ IsSafariRecv
    /\ At(s, "receive", "connect")
    /\ UNCHANGED invoked
    /\ \E ok \in BOOLEAN :
         /\ ConnectSettled(ok)
         /\ ops' = [ops EXCEPT ![s] =
                      IF ok THEN ReceiveLookup(ops[s]) ELSE Failed(ops[s], "connect")]
    /\ UNCHANGED << recvReg, remoteIce, negotiated, signalingState, received, appliedMids >>
    /\ RecvFrame(s)

SFReceiveSteps(s) ==
    \/ \E id \in Ids, kind \in Kinds : SFReceive(s, id, kind)
    \/ SFReceiveSetRemoteDescription(s)
    \/ SFReceiveCreateAnswer(s)
    \/ SFReceiveSetLocalDescription(s)
    \/ SFReceiveConnect(s)

\* Firefox60 stopReceiving({ id }) up to its first await: the entry is marked
\* closed and stays in the map.
FFStopReceiving(s, id) ==
    LET o == NewOp(s, "stopReceiving", id)
        infos == CloseInfo(receiverInfos, id)
    IN  /\ IsFirefoxRecv
        /\ Settled(s)
        /\ Invoke
        /\ IF ~HasInfo(receiverInfos, id)
           THEN /\ ops' = [ops EXCEPT ![s] = Failed(o, "NotFound")]
                /\ UNCHANGED << receiverInfos, negotiated >>
           ELSE /\ receiverInfos' = infos
                /\ ops' = [ops EXCEPT ![s] =
                             Await([o EXCEPT !.sdp = CreateOfferSdp(remoteIce, infos),
                                             !.round = TRUE],
                                   "setRemoteDescription")]
                /\ negotiated' = TRUE
        /\ UNCHANGED << kinds, remoteIce, signalingState, received, appliedMids, connectVars >>
        /\ RecvFrame(s)

\* Safari11 stopReceiving({ id }) up to its first await: the entry is deleted.
SFStopReceiving(s, id) ==
    LET o == NewOp(s, "stopReceiving", id)
        infos == DeleteInfo(receiverInfos, id)
    IN  /\ IsSafariRecv
        /\ Settled(s)
        /\ Invoke
        /\ IF ~HasInfo(receiverInfos, id)
           THEN /\ ops' = [ops EXCEPT ![s] = Failed(o, "NotFound")]
                /\ UNCHANGED << receiverInfos, negotiated >>
           ELSE /\ receiverInfos' = infos
                /\ ops' = [ops EXCEPT ![s] =
                             Await([o EXCEPT !.sdp = CreateOfferSdp(remoteIce, infos),
                                             !.round = TRUE],
                                   "setRemoteDescription")]
                /\ negotiated' = TRUE
        /\ UNCHANGED << kinds, remoteIce, signalingState, received, appliedMids, connectVars >>
        /\ RecvFrame(s)

\* stopReceiving() (both engines): pc.setRemoteDescription(offer) settled;
\* then pc.createAnswer() is called and NOT awaited: the pending promise is
\* what pc.setLocalDescription() is given.
StopReceivingSetRemoteDescription(s) ==
    /\ direction = "recv"
    /\ At(s, "stopReceiving", "setRemoteDescription")
    /\ UNCHANGED invoked
    /\ \E ok \in BOOLEAN :
         IF ok /\ SetRemoteOfferOk
         THEN /\ signalingState' = "have-remote-offer"
              /\ received' = received \cup Described(ops[s].sdp.entries)
              /\ OfferApplied(ops[s].sdp.entries)
              /\ ops' = [ops EXCEPT ![s] =
                           Await([ops[s] EXCEPT !.desc = "promise"],
                                 "setLocalDescription")]
         ELSE /\ ops' = [ops EXCEPT ![s] = Failed(ops[s], "setRemoteDescription")]
              /\ UNCHANGED << signalingState, received, appliedMids >>
    /\ UNCHANGED << recvReg, remoteIce, negotiated, connectVars >>
    /\ RecvFrame(s)

\* stopReceiving() (both engines): pc.setLocalDescription(answer) settled.
StopReceivingSetLocalDescription(s) ==
    /\ direction = "recv"
    /\ At(s, "stopReceiving", "setLocalDescription")
    /\ UNCHANGED invoked
    /\ \E ok \in BOOLEAN :
         IF ok /\ AnswerOk
         THEN /\ signalingState' = "stable"
              /\ ops' = [ops EXCEPT ![s] = Done(ops[s])]
         ELSE /\ ops' = [ops EXCEPT ![s] = Failed(ops[s], "setLocalDescription")]
              /\ UNCHANGED signalingState
    /\ UNCHANGED << recvReg, remoteIce, negotiated, received, appliedMids, connectVars >>
    /\ RecvFrame(s)

StopReceivingSteps(s) ==
    \/ \E id \in Ids : FFStopReceiving(s, id)
    \/ \E id \in Ids : SFStopReceiving(s, id)
    \/ StopReceivingSetRemoteDescription(s)
    \/ StopReceivingSetLocalDescription(s)

\* RecvRestartIce as it would be if the offer described the entries that are
\* not closed only.
RecvRestartIceLiveOnly(s, ice) ==
    LET o == [NewOp(s, "restartIce", "") EXCEPT !.ice = ice]
    IN  /\ direction = "recv"
        /\ Settled(s)
        /\ Invoke
        /\ UpdateTransportRemoteIceParameters(ice)
        /\ IF ~transportReady
           THEN /\ ops' = [ops EXCEPT ![s] = Done(o)]
                /\ UNCHANGED negotiated
           ELSE /\ ops' = [ops EXCEPT ![s] =
                             Await([o EXCEPT
                                      !.sdp = CreateOfferSdp(ice,
                                          SelectSeq(receiverInfos,
                                                    LAMBDA e : ~e.closed)),
                                      !.round = TRUE],
                                   "setRemoteDescription")]
                /\ negotiated' = TRUE
        /\ UNCHANGED << recvReg, signalingState, received, appliedMids, connectVars >>
        /\ RecvFrame(s)

\* RecvHandler.restartIce({ remoteIceParameters }) (both engines) up to its
\* first await.  The new parameters are stored; when the transport is not
\* ready it returns, else the remote offer is built again and applied.
RecvRestartIce(s, ice) ==
    LET o == [NewOp(s, "restartIce", "") EXCEPT !.ice = ice]
    IN  /\ direction = "recv"
        /\ Settled(s)
        /\ Invoke
        /\ UpdateTransportRemoteIceParameters(ice)
        /\ IF ~transportReady
           THEN /\ ops' = [ops EXCEPT ![s] = Done(o)]
                /\ UNCHANGED negotiated
           ELSE /\ ops' = [ops EXCEPT ![s] =
                             Await([o EXCEPT
                                      !.sdp = CreateOfferSdp(ice, receiverInfos),
                                      !.round = TRUE],
                                   "setRemoteDescription")]
                /\ negotiated' = TRUE
        /\ UNCHANGED << recvReg, signalingState, received, appliedMids, connectVars >>
        /\ RecvFrame(s)

\* Firefox60 restartIce(): pc.setRemoteDescription(offer) settled; then
\* pc.createAnswer() is called and NOT awaited.
FFRecvRestartIceSetRemoteDescription(s) ==
    /\ IsFirefoxRecv
    /\ At(s, "restartIce", "setRemoteDescription")
    /\ UNCHANGED invoked
    /\ \E ok \in BOOLEAN :
         IF ok /\ SetRemoteOfferOk
         THEN /\ signalingState' = "have-remote-offer"
              /\ received' = received \cup Described(ops[s].sdp.entries)
              /\ OfferApplied(ops[s].sdp.entries)
              /\ ops' = [ops EXCEPT ![s] =
                           Await([ops[s] EXCEPT !.desc = "promise"],
                                 "setLocalDescription")]
         ELSE /\ ops' = [ops EXCEPT ![s] = Failed(ops[s], "setRemoteDescription")]
              /\ UNCHANGED << signalingState, received, appliedMids >>
    /\ UNCHANGED << recvReg, remoteIce, negotiated, connectVars >>
    /\ RecvFrame(s)

\* Safari11 restartIce(): pc.setRemoteDescription(offer) settled; then
\* pc.createAnswer() is awaited.
SFRecvRestartIceSetRemoteDescription(s) ==
    /\ IsSafariRecv
    /\ At(s, "restartIce", "setRemoteDescription")
    /\ UNCHANGED invoked
    /\ \E ok \in BOOLEAN :
         IF ok /\ SetRemoteOfferOk
         THEN /\ signalingState' = "have-remote-offer"
              /\ received' = received \cup Described(ops[s].sdp.entries)
              /\ OfferApplied(ops[s].sdp.entries)
              /\ ops' = [ops EXCEPT ![s] = Await(ops[s], "createAnswer")]
         ELSE /\ ops' = [ops EXCEPT ![s] = Failed(ops[s], "setRemoteDescription")]
              /\ UNCHANGED << signalingState, received, appliedMids >>
    /\ UNCHANGED << recvReg, remoteIce, negotiated, connectVars >>
    /\ RecvFrame(s)

\* Safari11 restartIce(): pc.createAnswer() settled.
SFRecvRestartIceCreateAnswer(s) ==
    /\ IsSafariRecv
    /\ At(s, "restartIce", "createAnswer")
    /\ UNCHANGED invoked
    /\ \E ok \in BOOLEAN :
         ops' = [ops EXCEPT ![s] =
                   IF ok /\ AnswerOk
                   THEN Await([ops[s] EXCEPT !.desc = "desc"], "setLocalDescription")
                   ELSE Failed(ops[s], "createAnswer")]
    /\ UNCHANGED << recvReg, remoteIce, negotiated, signalingState, received, appliedMids,
                    connectVars >>
    /\ RecvFrame(s)

\* restartIce() (both engines): pc.setLocalDescription(answer) settled.
RecvRestartIceSetLocalDescription(s) ==
    /\ direction = "recv"
    /\ At(s, "restartIce", "setLocalDescription")
    /\ UNCHANGED invoked
    /\ \E ok \in BOOLEAN :
         IF ok /\ AnswerOk
         THEN /\ signalingState' = "stable"
              /\ ops' = [ops EXCEPT ![s] = Done(ops[s])]
         ELSE /\ ops' = [ops EXCEPT ![s] = Failed(ops[s], "setLocalDescription")]
              /\ UNCHANGED signalingState
    /\ UNCHANGED << recvReg, remoteIce, negotiated, received, appliedMids, connectVars >>
    /\ RecvFrame(s)

RecvRestartIceSteps(s) ==
    \/ \E ice \in IceParams : RecvRestartIce(s, ice)
    \/ FFRecvRestartIceSetRemoteDescription(s)
    \/ SFRecvRestartIceSetRemoteDescription(s)
    \/ SFRecvRestartIceCreateAnswer(s)
    \/ RecvRestartIceSetLocalDescription(s)

\* ------------------------------------------- SendHandler.replaceTrack (both)

\* The sender of the pc that has the track: Firefox60 its transceiver's index,
\* Safari11 1; 0 when no sender has it.
SenderOf(track) ==
    IF engine = "Firefox60" THEN FindSender(track)
    ELSE IF track \in senders THEN 1 ELSE 0

\* The kind of media the sender found by an invocation carries.
SenderKind(o) ==
    IF engine = "Firefox60" THEN transceivers[o.tx].kind ELSE TrackKind(o.arg)

\* replaceTrack({ track, newTrack }) up to its await.
ReplaceTrack(s, track, newTrack) ==
    LET o == [NewOp(s, "replaceTrack", track) EXCEPT !.newTrack = newTrack]
        i == SenderOf(track)
    IN  /\ direction = "send"
        /\ Settled(s)
        /\ Invoke
        /\ ops' = [ops EXCEPT ![s] =
                     IF newTrack \in tracks THEN Failed(o, "DuplicatedError")
                     ELSE IF i = 0 THEN Failed(o, "NotFound")
                     ELSE Await([o EXCEPT !.tx = i], "replaceTrack")]
        /\ UNCHANGED << tracks, nextRid, negotiated, remoteIce, sendPc,
                        signalingState, connectVars >>
        /\ SendFrame(s)

\* replaceTrack(): rtpSender.replaceTrack(newTrack) settled; it rejects a
\* track of another kind.  On success the sender has the new track, the old
\* track leaves the registry and the new one enters it.
ReplaceTrackSettled(s) ==
    /\ direction = "send"
    /\ At(s, "replaceTrack", "replaceTrack")
    /\ UNCHANGED invoked
    /\ \E ok \in BOOLEAN :
         IF ok /\ TrackKind(ops[s].newTrack) = SenderKind(ops[s])
         THEN /\ tracks' = (tracks \ {ops[s].arg}) \cup {ops[s].newTrack}
              /\ IF engine = "Firefox60"
                 THEN /\ transceivers' =
                           [transceivers EXCEPT ![ops[s].tx].track = ops[s].newTrack]
                      /\ UNCHANGED senders
                 ELSE /\ senders' =
                           IF ops[s].arg \in senders
                           THEN (senders \ {ops[s].arg}) \cup {ops[s].newTrack}
                           ELSE senders
                      /\ UNCHANGED transceivers
              /\ ops' = [ops EXCEPT ![s] = Done(ops[s])]
         ELSE /\ ops' = [ops EXCEPT ![s] = Failed(ops[s], "replaceTrack")]
              /\ UNCHANGED << tracks, transceivers, senders >>
    /\ UNCHANGED << nextRid, negotiated, remoteIce, signalingState, connectVars >>
    /\ SendFrame(s)

ReplaceTrackSteps(s) ==
    \/ \E t \in Tracks, n \in Tracks : ReplaceTrack(s, t, n)
    \/ ReplaceTrackSettled(s)

\* ------------------------------------------ SendHandler.setMaxSpatialLayer

\* SpatialLayerEncodings as it would be if 'medium' left the third encoding
\* as it was.
SpatialLayerEncodingsMediumKeepsHigh(encodings, layer) ==
    [ i \in 1..Len(encodings) |->
        IF i = 1 THEN [encodings[i] EXCEPT !.active = TRUE]
        ELSE IF i = 2
        THEN [encodings[i] EXCEPT !.active = (layer \in {"medium", "high"})]
        ELSE IF i = 3 /\ layer # "medium"
        THEN [encodings[i] EXCEPT !.active = (layer = "high")]
        ELSE encodings[i] ]

\* setMaxSpatialLayer(): the switch on spatialLayer.  The encodings are taken
\* by position (encodings[0] as low, [1] as medium, [2] as high) and each one
\* that exists gets its active flag.
SpatialLayerEncodings(encodings, layer) ==
    [ i \in 1..Len(encodings) |->
        IF i = 1 THEN [encodings[i] EXCEPT !.active = TRUE]
        ELSE IF i = 2
        THEN [encodings[i] EXCEPT !.active = (layer \in {"medium", "high"})]
        ELSE IF i = 3 THEN [encodings[i] EXCEPT !.active = (layer = "high")]
        ELSE encodings[i] ]

\* Firefox60 setMaxSpatialLayer({ track, spatialLayer }) up to its await.
FFSetMaxSpatialLayer(s, track, layer) ==
    LET o == [NewOp(s, "setMaxSpatialLayer", track) EXCEPT !.layer = layer]
        i == FindSender(track)
    IN  /\ IsFirefoxSend
        /\ Settled(s)
        /\ Invoke
        /\ ops' = [ops EXCEPT ![s] =
                     IF i = 0 THEN Failed(o, "NotFound")
                     ELSE Await([o EXCEPT
                                   !.tx = i,
                                   !.encBefore = transceivers[i].encodings,
                                   !.enc = SpatialLayerEncodings(
                                               transceivers[i].encodings, layer)],
                                "setParameters")]
        /\ UNCHANGED << tracks, nextRid, negotiated, remoteIce, sendPc,
                        signalingState, connectVars >>
        /\ SendFrame(s)

\* setMaxSpatialLayer(): rtpSender.setParameters(parameters) settled.
FFSetMaxSpatialLayerSettled(s) ==
    /\ IsFirefoxSend
    /\ At(s, "setMaxSpatialLayer", "setParameters")
    /\ UNCHANGED invoked
    /\ \E ok \in BOOLEAN :
         IF ok
         THEN /\ transceivers' =
                   [transceivers EXCEPT ![ops[s].tx].encodings = ops[s].enc]
              /\ ops' = [ops EXCEPT ![s] = Done(ops[s])]
         ELSE /\ ops' = [ops EXCEPT ![s] = Failed(ops[s], "setParameters")]
              /\ UNCHANGED transceivers
    /\ UNCHANGED << tracks, nextRid, negotiated, remoteIce, senders,
                    signalingState, connectVars >>
    /\ SendFrame(s)

\* Safari11 setMaxSpatialLayer({ track, spatialLayer }): not supported.
SFSetMaxSpatialLayer(s, track, layer) ==
    LET o == [NewOp(s, "setMaxSpatialLayer", track) EXCEPT !.layer = layer]
    IN  /\ IsSafariSend
        /\ Settled(s)
        /\ Invoke
        /\ ops' = [ops EXCEPT ![s] = Failed(o, "UnsupportedError")]
        /\ UNCHANGED << tracks, nextRid, negotiated, remoteIce, sendPc,
                        signalingState, connectVars >>
        /\ SendFrame(s)

SetMaxSpatialLayerSteps(s) ==
    \/ \E t \in Tracks, l \in SpatialLayers : FFSetMaxSpatialLayer(s, t, l)
    \/ FFSetMaxSpatialLayerSettled(s)
    \/ \E t \in Tracks, l \in SpatialLayers : SFSetMaxSpatialLayer(s, t, l)

\* ------------------------------------------------------------------ stats

\* getSenderStats({ track }) (both engines): the sender is looked up and its
\* getStats() promise returned.
GetSenderStats(s, track) ==
    LET o == NewOp(s, "getSenderStats", track)
    IN  /\ direction = "send"
        /\ Settled(s)
        /\ Invoke
        /\ \E ok \in BOOLEAN :
             ops' = [ops EXCEPT ![s] =
                       IF SenderOf(track) = 0 THEN Failed(o, "NotFound")
                       ELSE IF ok THEN Done(o) ELSE Failed(o, "getStats")]
        /\ UNCHANGED << tracks, nextRid, negotiated, remoteIce, sendPc,
                        signalingState, connectVars >>
        /\ SendFrame(s)

\* this._receiverInfos.get(id), for an id the map has.
GetInfo(infos, id) ==
    infos[CHOOSE i \in 1..Len(infos) : infos[i].id = id]

\* getReceiverStats({ id }) (both engines): the entry is looked up, then its
\* transceiver (Firefox60, by mid) or receiver (Safari11, by track id), whose
\* getStats() promise is returned.
GetReceiverStats(s, id) ==
    LET o == NewOp(s, "getReceiverStats", id)
    IN  /\ direction = "recv"
        /\ Settled(s)
        /\ Invoke
        /\ \E ok \in BOOLEAN :
             ops' = [ops EXCEPT ![s] =
                       IF ~HasInfo(receiverInfos, id) THEN Failed(o, "NotFound")
                       ELSE IF << GetInfo(receiverInfos, id).kind, id >> \notin received
                       THEN Failed(o, "receiver not found")
                       ELSE IF ok THEN Done(o) ELSE Failed(o, "getStats")]
        /\ UNCHANGED << recvReg, remoteIce, negotiated, signalingState, received, appliedMids,
                        connectVars >>
        /\ RecvFrame(s)

StatsSteps(s) ==
    \/ \E t \in Tracks : GetSenderStats(s, t)
    \/ \E id \in Ids : GetReceiverStats(s, id)

\* ---------------------------------------------- Handler (either direction)

\* What no step of Handler itself changes, and the note of a failure.
HandlerFrame(s) ==
    /\ UNCHANGED << handlerId, sendReg, recvReg, sendPc, received, appliedMids, remoteIce,
                    negotiated, connectVars, iceVars >>
    /\ NoteOutcome(s)

\* FFUpdateIceServers as it would be if it set the configuration of the pc.
FFUpdateIceServersConfigures(s, servers) ==
    /\ engine = "Firefox60"
    /\ Settled(s)
    /\ Invoke
    /\ iceServers' = servers
    /\ ops' = [ops EXCEPT ![s] = Done(NewOp(s, "updateIceServers", ""))]
    /\ UNCHANGED signalingState
    /\ HandlerFrame(s)

\* Firefox60 updateIceServers({ iceServers }): not supported.
FFUpdateIceServers(s, servers) ==
    /\ engine = "Firefox60"
    /\ Settled(s)
    /\ Invoke
    /\ ops' = [ops EXCEPT ![s] =
                 Failed(NewOp(s, "updateIceServers", ""), "UnsupportedError")]
    /\ UNCHANGED << iceServers, signalingState >>
    /\ HandlerFrame(s)

\* Safari11 updateIceServers({ iceServers }): the configuration of the pc is
\* read, given the new servers and set; pc.setConfiguration() throws on a
\* closed pc.
SFUpdateIceServers(s, servers) ==
    /\ engine = "Safari11"
    /\ Settled(s)
    /\ Invoke
    /\ IF PcOpen
       THEN /\ iceServers' = servers
            /\ ops' = [ops EXCEPT ![s] = Done(NewOp(s, "updateIceServers", ""))]
       ELSE /\ ops' = [ops EXCEPT ![s] =
                         Failed(NewOp(s, "updateIceServers", ""), "InvalidStateError")]
            /\ UNCHANGED iceServers
    /\ UNCHANGED signalingState
    /\ HandlerFrame(s)

\* Close as it would be without the try/catch around pc.close().
CloseRethrows(s) ==
    /\ Settled(s)
    /\ Invoke
    /\ signalingState' = "closed"
    /\ \E threw \in BOOLEAN :
         ops' = [ops EXCEPT ![s] =
                   IF threw THEN Failed(NewOp(s, "close", ""), "close")
                   ELSE Done(NewOp(s, "close", ""))]
    /\ UNCHANGED iceServers
    /\ HandlerFrame(s)

\* close() (both engines): pc.close() is called and whatever it throws is
\* ignored.  pc.close() marks the pc closed as its first step, so the pc is
\* closed whether or not the call goes on to throw.
Close(s) ==
    /\ Settled(s)
    /\ Invoke
    /\ signalingState' = "closed"
    /\ \E threw \in BOOLEAN :
         ops' = [ops EXCEPT ![s] =
                   Done([NewOp(s, "close", "") EXCEPT
                           !.err = IF threw THEN "close" ELSE ""])]
    /\ UNCHANGED iceServers
    /\ HandlerFrame(s)

HandlerSteps(s) ==
    \/ \E servers \in IceServers : FFUpdateIceServers(s, servers)
    \/ \E servers \in IceServers : SFUpdateIceServers(s, servers)
    \/ Close(s)

\* ------------------------------------------- '@connectionstatechange'

\* ConnectionStateOf as it would be if 'completed' had no case of its own
\* code and fell to a default that reports the ICE state as it is.
ConnectionStateOfRaw(ice) ==
    CASE ice = "checking" -> "connecting"
      [] ice = "connected" -> "connected"
      [] OTHER -> ice

\* The listener of 'iceconnectionstatechange': the switch on
\* pc.iceConnectionState, "none" when no case matches.
ConnectionStateOf(ice) ==
    CASE ice = "checking" -> "connecting"
      [] ice \in {"connected", "completed"} -> "connected"
      [] ice = "failed" -> "failed"
      [] ice = "disconnected" -> "disconnected"
      [] ice = "closed" -> "closed"
      [] OTHER -> "none"

\* The pc fires 'iceconnectionstatechange' with its ICE connection state
\* changed to st: the listener emits '@connectionstatechange' when a case of
\* its switch matches.
OnIceConnectionStateChange(st) ==
    /\ st # iceConnectionState
    /\ Len(stateChanges) < MaxStateChanges
    /\ iceConnectionState' = st
    /\ stateChanges' =
         IF ConnectionStateOf(st) = "none" THEN stateChanges
         ELSE Append(stateChanges, [ice |-> st, state |-> ConnectionStateOf(st)])
    /\ UNCHANGED << engine, direction, transportReady, tracks, receiverInfos,
                    kinds, nextRid, remoteIce, transceivers, senders,
                    signalingState, iceServers, received, appliedMids, connectEmits,
                    anyFailed, negotiated, completed, invoked, caps, ops >>

\* ---------------------------------------------------------- specifications

Step(s) ==
    \/ FFSendSteps(s)
    \/ FFStopSendingSteps(s)
    \/ SFSendSteps(s)
    \/ SFStopSendingSteps(s)
    \/ SendRestartIceSteps(s)
    \/ FFReceiveSteps(s)
    \/ SFReceiveSteps(s)
    \/ StopReceivingSteps(s)
    \/ RecvRestartIceSteps(s)
    \/ ReplaceTrackSteps(s)
    \/ SetMaxSpatialLayerSteps(s)
    \/ StatsSteps(s)
    \/ HandlerSteps(s)

\* The caller awaits each operation before it invokes the next.
Next == (Settled(1) => invoked < MaxCalls) /\ Step(1)

Spec == Init /\ [][Next]_vars

\* The caller invokes operations while earlier ones are still pending.
NextOverlap ==
    \E s \in Slots : (Settled(s) => invoked < MaxOverlapCalls) /\ Step(s)

SpecOverlap == Init /\ [][NextOverlap]_vars

\* The pc reports changes of its ICE connection state to a handler.
NextIce == \E st \in IceConnectionStates : OnIceConnectionStateChange(st)

SpecIce == Init /\ [][NextIce]_vars

\* An operation that is suspended is resumed: the call it awaits resolves or
\* rejects.
Resume(s) == Running(s) /\ Step(s)

\* The caller awaits each operation, and every awaited call of the pc and
\* every '@connect' exchange is eventually settled.
NextLive == (Settled(1) => invoked < MaxLiveCalls) /\ Step(1)

SpecLive == Init /\ [][NextLive]_vars /\ WF_vars(Resume(1))

\* A device loads capabilities, constructs a send handler and sends.
NextCaps ==
    \/ LoadExtended
    \/ ConstructHandler
    \/ /\ caps.phase = "constructed"
       /\ Settled(1) => invoked < MaxCapsCalls
       /\ (FFSendSteps(1) \/ SFSendSteps(1))

SpecCaps == InitCaps /\ [][NextCaps]_vars

\* ------------------------------------------------------------------ claims

OfferAnswerErrors ==
    {"createOffer", "createAnswer", "setLocalDescription", "setRemoteDescription"}

\* C1: the '@connect' notification is emitted exactly once in the handler's
\* lifetime: never before the first offer/answer round, once during it, and
\* never again on any later round.  (The last part is stated for the runs in
\* which no operation has failed: a rejected '@connect' exchange leaves the
\* transport not ready and the next round emits again.)
C1_ConnectExactlyOnce ==
    /\ ~negotiated => connectEmits = 0
    /\ transportReady => connectEmits >= 1
    /\ ~anyFailed => connectEmits <= 1

\* C2: once the transport is ready, no later send() or receive() calls
\* _setupTransport again: an invocation that ran _setupTransport was invoked
\* with this._transportReady false.
C2_SetupOnlyWhenNotReady ==
    \A s \in Slots : ops[s].setup => ~ops[s].readyBefore

\* C3: operations on one handler never run concurrently: a second operation
\* makes no offer/answer call on the pc while the round of a first one is
\* still in flight.
C3_OperationsSerialized ==
    \A s1, s2 \in Slots :
        ( /\ Running(s1) /\ ops[s1].round
          /\ Running(s2) /\ ops[s2].round ) => s1 = s2

\* C4: a failed send() leaves the set of registered send tracks as it was
\* before the call, whichever of its steps failed.
C4_FailedSendKeepsTracks ==
    \A s \in Slots :
        (ops[s].op = "send" /\ ops[s].pc = "failed")
            => tracks = ops[s].regBefore.tracks

\* C4 witness: a Safari11 send() that had added its track to a non-empty
\* stream has failed at pc.setRemoteDescription().
C4_Witness ==
    \E s \in Slots :
        /\ engine = "Safari11"
        /\ ops[s].op = "send" /\ ops[s].pc = "failed"
        /\ ops[s].err = "setRemoteDescription"
        /\ ops[s].regBefore.tracks # {}

\* C5: a failed receive() leaves _receiverInfos as it was before the call,
\* whichever step of its round failed.
C5_FailedReceiveRestores ==
    \A s \in Slots :
        (ops[s].op = "receive" /\ ops[s].pc = "failed")
            => receiverInfos = ops[s].regBefore.infos

\* C6: a receive() invoked right after a successful stopReceiving() of the
\* same id does not fail as a duplicate, and when it succeeds the registry
\* holds exactly one entry for that id.  (Stated for a handler none of whose
\* earlier operations failed.)
C6_ReceiveAfterStopReceiving ==
    \A s \in Slots :
        (ops[s].op = "receive" /\ ops[s].afterStop /\ ops[s].clean)
            => /\ ops[s].err # "DuplicatedError"
               /\ ops[s].pc = "done" =>
                    Cardinality({ i \in 1..Len(receiverInfos) :
                                    receiverInfos[i].id = ops[s].arg }) = 1

\* C7: a stop operation is transactional: while stopSending(track) or
\* stopReceiving(id) is in flight the entry is still in the registry, and
\* when it has failed the registry is as it was before the call.  (Stated
\* for a handler none of whose earlier operations failed.)
C7_StopTransactional ==
    \A s \in Slots :
        (ops[s].op \in {"stopSending", "stopReceiving"} /\ ops[s].clean) =>
            /\ (ops[s].op = "stopSending" /\ Running(s)) => ops[s].arg \in tracks
            /\ (ops[s].op = "stopReceiving" /\ Running(s))
                   => HasInfo(receiverInfos, ops[s].arg)
            /\ ops[s].pc = "failed" => Registry = ops[s].regBefore

\* C8: after a send() that failed in one of its steps no sender of the pc
\* still has the track (so that stopSending/getSenderStats, which begin by
\* looking the sender up, fail with 'local track not found').
C8_FailedSendDetachesTrack ==
    \A s \in Slots :
        ( /\ ops[s].op = "send" /\ ops[s].pc = "failed"
          /\ ops[s].err # "DuplicatedError" ) => ~HasSender(ops[s].arg)

\* C9: no operation catches the failure of an offer/answer call of the pc
\* and returns successfully.
C9_NoErrorSwallowed ==
    \A s \in Slots : ~ops[s].swallowed

\* C10: restartIce() invoked before the first offer/answer round returns
\* without any offer/answer call, leaves the registry and the readiness flag
\* as they were and stores the new remote ICE parameters; and every remote
\* description is built with the parameters stored last.
C10_EarlyRestartIceDeferred ==
    \A s \in Slots :
        /\ (ops[s].op = "restartIce" /\ ~ops[s].negBefore)
               => /\ ops[s].pc = "done"
                  /\ ~ops[s].round
                  /\ ~negotiated
                  /\ Registry = ops[s].regBefore
                  /\ transportReady = ops[s].readyBefore
                  /\ remoteIce = ops[s].ice
        /\ ops[s].sdp.built => ops[s].sdp.ice = remoteIce

\* C10 witness: the remote description of the first round is being applied
\* and carries ICE parameters other than the initial ones, which only a
\* restartIce() before that round can have stored.
C10_Witness ==
    \E s \in Slots :
        /\ Running(s)
        /\ ~ops[s].negBefore
        /\ ops[s].op \in {"send", "receive"}
        /\ ops[s].sdp.built
        /\ ops[s].sdp.ice # 0

\* The handler's fields and the pc, without the bookkeeping of invocations.
handlerState ==
    << transportReady, tracks, receiverInfos, kinds, nextRid, remoteIce,
       connectEmits, transceivers, senders, signalingState, iceServers,
       received, negotiated >>

\* The map has an entry of the id that is not closed.
LiveInfo(infos, id) ==
    \E i \in 1..Len(infos) : infos[i].id = id /\ ~infos[i].closed

\* C11: restartIce() renegotiates only when some offer/answer round has been
\* applied in full before it: invoked while no round has fully succeeded, it
\* makes no offer/answer call.
C11_RestartIceOnlyAfterFirstRound ==
    \A s \in Slots :
        (ops[s].op = "restartIce" /\ ~ops[s].roundBefore) => ~ops[s].round

\* The active flags setMaxSpatialLayer(layer) is to give the layers low,
\* medium, high.
ExpectedActive(layer) ==
    CASE layer = "low" -> << TRUE, FALSE, FALSE >>
      [] layer = "medium" -> << TRUE, TRUE, FALSE >>
      [] OTHER -> << TRUE, TRUE, TRUE >>

\* The encodings are those of a track sent with the three layers.
ThreeLayers(e) ==
    /\ Len(e) = 3
    /\ e[1].layer = "low" /\ e[2].layer = "medium" /\ e[3].layer = "high"

\* C12: on a track sent with the three simulcast layers, a setMaxSpatialLayer()
\* that succeeded leaves the active flags of [low, medium, high] at
\* [true, false, false] for 'low', [true, true, false] for 'medium' and
\* [true, true, true] for 'high', whatever they were before.
C12_ThreeLayerActiveFlags ==
    \A s \in Slots :
        ( /\ ops[s].op = "setMaxSpatialLayer" /\ ops[s].pc = "done"
          /\ FindSender(ops[s].arg) # 0
          /\ ThreeLayers(transceivers[FindSender(ops[s].arg)].encodings) )
        => LET e == transceivers[FindSender(ops[s].arg)].encodings
           IN  << e[1].active, e[2].active, e[3].active >>
                   = ExpectedActive(ops[s].layer)

\* C12 witness: setMaxSpatialLayer('high') has succeeded on a three-layer
\* track whose medium and high layers were inactive before the call.
C12_Witness ==
    \E s \in Slots :
        /\ ops[s].op = "setMaxSpatialLayer" /\ ops[s].pc = "done"
        /\ ops[s].layer = "high"
        /\ ThreeLayers(ops[s].encBefore)
        /\ ~ops[s].encBefore[2].active /\ ~ops[s].encBefore[3].active
        /\ FindSender(ops[s].arg) # 0
        /\ ThreeLayers(transceivers[FindSender(ops[s].arg)].encodings)

\* The order of the spatial layers.
LayerRank(layer) ==
    CASE layer = "low" -> 1 [] layer = "medium" -> 2 [] OTHER -> 3

\* C13: whichever of the layers a track was sent with, a setMaxSpatialLayer()
\* that succeeded leaves active exactly the configured layers at or below the
\* requested one.  (Stated for a handler none of whose earlier operations
\* failed.)
C13_ActiveUpToRequestedLayer ==
    \A s \in Slots :
        ( /\ ops[s].op = "setMaxSpatialLayer" /\ ops[s].pc = "done"
          /\ ops[s].clean
          /\ FindSender(ops[s].arg) # 0 )
        => LET e == transceivers[FindSender(ops[s].arg)].encodings
           IN  \A k \in 1..Len(e) :
                   e[k].active = (LayerRank(e[k].layer) <= LayerRank(ops[s].layer))

\* C14: Safari11 setMaxSpatialLayer() and Firefox60 updateIceServers() fail
\* with UnsupportedError and change nothing of the handler or of the pc.
C14_UnsupportedNoSideEffect ==
    [][ \A s \in Slots :
          ( \/ \E servers \in IceServers : FFUpdateIceServers(s, servers)
            \/ \E t \in Tracks, l \in SpatialLayers : SFSetMaxSpatialLayer(s, t, l) )
          => /\ ops'[s].pc = "failed"
             /\ ops'[s].err = "UnsupportedError"
             /\ ~ops'[s].round
             /\ UNCHANGED handlerState ]_vars

\* C14 witness: updateIceServers() has failed as unsupported on a Firefox60
\* handler that is ready and has a track registered.
C14_Witness ==
    \E s \in Slots :
        /\ engine = "Firefox60"
        /\ ops[s].op = "updateIceServers" /\ ops[s].pc = "failed"
        /\ ops[s].err = "UnsupportedError"
        /\ transportReady
        /\ tracks # {}

\* C15: send() of a track that is registered, and receive() of an id that has
\* a live entry, fail with DuplicatedError without an offer/answer step and
\* leave the registry as it was.
C15_DuplicateRejected ==
    \A s \in Slots :
        ( \/ ops[s].op = "send" /\ ops[s].arg \in ops[s].regBefore.tracks
          \/ ops[s].op = "receive" /\ LiveInfo(ops[s].regBefore.infos, ops[s].arg) )
        => /\ ops[s].pc = "failed"
           /\ ops[s].err = "DuplicatedError"
           /\ ~ops[s].round
           /\ Registry = ops[s].regBefore

\* C15 witness: a receive() of an id with a live entry has failed as a
\* duplicate.
C15_Witness ==
    \E s \in Slots :
        /\ ops[s].op = "receive"
        /\ LiveInfo(ops[s].regBefore.infos, ops[s].arg)
        /\ ops[s].pc = "failed" /\ ops[s].err = "DuplicatedError"

\* C16: stopReceiving/getReceiverStats of an id with no live entry, and
\* stopSending/getSenderStats of a track that is not registered, fail as not
\* found without an offer/answer round and leave the registry as it was.
\* (Stated for a handler none of whose earlier operations failed.)
C16_NotFoundRejected ==
    \A s \in Slots :
        ( /\ ops[s].clean
          /\ \/ /\ ops[s].op \in {"stopReceiving", "getReceiverStats"}
                /\ ~LiveInfo(ops[s].regBefore.infos, ops[s].arg)
             \/ /\ ops[s].op \in {"stopSending", "getSenderStats"}
                /\ ops[s].arg \notin ops[s].regBefore.tracks )
        => /\ ops[s].pc = "failed"
           /\ ops[s].err = "NotFound"
           /\ ~ops[s].round
           /\ Registry = ops[s].regBefore

\* C17: replaceTrack() runs no offer/answer round; when it succeeded the
\* registry has as many entries as before, newTrack in the place of track,
\* and when it failed the registry is as it was.
C17_ReplaceTrackPreservesRegistry ==
    \A s \in Slots :
        ops[s].op = "replaceTrack"
        => /\ ~ops[s].round
           /\ ops[s].pc = "failed" => Registry = ops[s].regBefore
           /\ ops[s].pc = "done" =>
                /\ tracks = (ops[s].regBefore.tracks \ {ops[s].arg})
                                \cup {ops[s].newTrack}
                /\ Cardinality(tracks) = Cardinality(ops[s].regBefore.tracks)

\* C18: close() never raises, also when pc.close() throws; it leaves the pc
\* closed and the handler's fields as they were, and on a handler that is
\* closed already it changes nothing: two calls leave what one call leaves.
C18_CloseNeverRaisesIdempotent ==
    [][ \A s \in Slots :
          Close(s)
          => /\ ops'[s].pc = "done"
             /\ signalingState' = "closed"
             /\ UNCHANGED << transportReady, tracks, receiverInfos, kinds,
                             nextRid, remoteIce, connectEmits >>
             /\ ~PcOpen => UNCHANGED handlerState ]_vars

\* C18 witness: a second close(), on a handler that was ready and closed
\* already, has returned although pc.close() threw.
C18_Witness ==
    \E s \in Slots :
        /\ ops[s].op = "close" /\ ops[s].pc = "done"
        /\ ops[s].err = "close"
        /\ ops[s].closedBefore
        /\ transportReady

\* C19: an operation invoked after close() fails, and it changes neither the
\* registry nor the readiness flag nor emits '@connect'.
C19_ClosedRejectsOperations ==
    \A s \in Slots :
        ( /\ ops[s].closedBefore
          /\ ops[s].op \in {"send", "stopSending", "replaceTrack", "receive",
                            "stopReceiving", "restartIce"} )
        => /\ Settled(s) => ops[s].pc = "failed"
           /\ Registry = ops[s].regBefore
           /\ transportReady = ops[s].readyBefore
           /\ ~ops[s].setup

\* C20: every '@connectionstatechange' carries one of the five states, the
\* one its ICE connection state determines: checking gives connecting,
\* connected and completed give connected, failed, disconnected and closed
\* give themselves; the ICE state new emits nothing.
C20_ConnectionStateMapping ==
    \A i \in 1..Len(stateChanges) :
        LET e == stateChanges[i]
        IN  /\ e.state \in {"connecting", "connected", "failed",
                            "disconnected", "closed"}
            /\ e.ice # "new"
            /\ e.ice = "checking" => e.state = "connecting"
            /\ e.ice \in {"connected", "completed"} => e.state = "connected"
            /\ e.ice \in {"failed", "disconnected", "closed"} => e.state = e.ice

\* C20 witness: 'completed' was reported as connected, and the ICE state has
\* since gone to new without a notification.
C20_Witness ==
    /\ Len(stateChanges) = 1
    /\ stateChanges[1] = [ice |-> "completed", state |-> "connected"]
    /\ iceConnectionState = "new"


\* The layers of a simulcast configuration in their order, and the bitrate a
\* configuration gives a layer (0: the layer is not configured).
LayerOrder == << "low", "medium", "high" >>
ConfiguredBitrate(sim, layer) ==
    CASE layer = "low" -> sim.low
      [] layer = "medium" -> sim.medium
      [] OTHER -> sim.high
ConfiguredLayers(sim) ==
    SelectSeq(LayerOrder, LAMBDA l : ConfiguredBitrate(sim, l) # 0)

\* C21: when send() with a simulcast configuration has set the encodings of
\* its sender, they are the configured layers in the order low, medium, high,
\* each active and with the maxBitrate configured for it; a layer that is not
\* configured has no encoding.
C21_SimulcastEncodings ==
    [][ \A s \in Slots :
          (FFSendSetParameters(s) /\ ops'[s].pc = "createOffer")
          => LET e == transceivers'[ops[s].tx].encodings
                 layers == ConfiguredLayers(ops[s].sim)
             IN  /\ Len(e) = Len(layers)
                 /\ \A i \in 1..Len(e) :
                        /\ e[i].layer = layers[i]
                        /\ e[i].active
                        /\ e[i].maxBitrate = ConfiguredBitrate(ops[s].sim, layers[i]) ]_vars

\* C21 witness: a send() configured with the low and the high layer only has
\* set two encodings on its sender and goes on to its offer.
C21_Witness ==
    \E s \in Slots :
        /\ ops[s].op = "send" /\ ops[s].pc = "createOffer"
        /\ ops[s].sim.on /\ ops[s].sim.medium = 0
        /\ Len(transceivers[ops[s].tx].encodings) = 2
        /\ transceivers[ops[s].tx].encodings[2].layer = "high"


\* The payload types of the entries of a codec list are pairwise distinct.
DistinctPayloadTypes(codecs) ==
    \A i, j \in 1..Len(codecs) :
        codecs[i].payloadType = codecs[j].payloadType => i = j

\* What identifies a codec in a result: name, clock rate, channels and the
\* payload type it is sent with.
SentCodec(name, clockRate, channels, pt) ==
    [name |-> name, clockRate |-> clockRate, channels |-> channels, pt |-> pt]

\* The codecs other than rtx of RTP parameters, and the codecs of a kind of
\* the extended capabilities, each in its order.
ParameterCodecs(p) ==
    LET c == SelectSeq(p.codecs, LAMBDA e : e.apt = 0)
    IN  [ i \in 1..Len(c) |->
            SentCodec(c[i].name, c[i].clockRate, c[i].channels, c[i].payloadType) ]
ExtendedCodecsOf(kind, extended) ==
    LET c == SelectSeq(extended.codecs, LAMBDA e : e.kind = kind)
    IN  [ i \in 1..Len(c) |->
            SentCodec(c[i].name, c[i].clockRate, c[i].channels,
                      c[i].sendPayloadType) ]

\* C22: the sending RTP parameters a send handler holds for a kind, and the
\* codecs of every send() result of a track of that kind, are exactly the
\* codecs of that kind of the extended capabilities (an rtx entry belongs to
\* the codec before it), and the payload types of a result are pairwise
\* distinct.
C22_SendingRtpParameters ==
    /\ caps.phase = "constructed" =>
         \A kind \in Kinds :
             LET p == caps.sending[kind]
             IN  /\ ParameterCodecs(p) = ExtendedCodecsOf(kind, caps.extended)
                 /\ DistinctPayloadTypes(p.codecs)
                 /\ \A i \in 1..Len(p.codecs) :
                        p.codecs[i].apt # 0 =>
                            i > 1 /\ p.codecs[i - 1].payloadType = p.codecs[i].apt
    /\ \A s \in Slots :
           (ops[s].op = "send" /\ ops[s].pc = "done")
               => /\ ParameterCodecs(ops[s].result)
                      = ExtendedCodecsOf(TrackKind(ops[s].arg), caps.extended)
                  /\ DistinctPayloadTypes(ops[s].result.codecs)

\* C22 witness: a send() of a video track has returned, on a handler
\* constructed from capabilities with two video codecs that both have rtx:
\* its result has the four entries.
C22_Witness ==
    \E s \in Slots :
        /\ ops[s].op = "send" /\ ops[s].pc = "done"
        /\ TrackKind(ops[s].arg) = "video"
        /\ Len(ops[s].result.codecs) = 4
        /\ Len(caps.extended.rtx) = 2


\* C23: every rtx entry of the extended capabilities refers, by its apt on
\* the send side and on the receive side, to the payload types of one codec
\* of the same result that is not rtx; an rtx codec whose apt refers to no
\* matched codec is not in the result.
C23_RtxAptResolved ==
    caps.phase \in {"extended", "constructed"} =>
        LET ext == caps.extended
        IN  \A i \in 1..Len(ext.rtx) :
                \E j \in 1..Len(ext.codecs) :
                    /\ ext.codecs[j].recvPayloadType = ext.rtx[i].recvApt
                    /\ ext.codecs[j].sendPayloadType = ext.rtx[i].sendApt

\* C23 witness: the extended capabilities of the fixtures have been computed:
\* the native set has no H264, the router's rtx for H264 is dropped and the
\* rtx of VP8 is the only one left.
C23_Witness ==
    /\ caps.phase = "extended"
    /\ caps.local = NativeRtpCapabilities
    /\ caps.remote = RouterRtpCapabilities
    /\ Len(caps.extended.codecs) = 2
    /\ Len(caps.extended.rtx) = 1
    /\ caps.extended.rtx[1].recvApt = 101


\* C24: every operation that is pending eventually completes, by returning
\* or by raising, when every call it awaits is eventually settled: none stays
\* suspended forever, in the middle of an offer/answer round or elsewhere.
C24_OperationsComplete ==
    \A s \in Slots : Running(s) ~> Settled(s)

\* C24 witness: a receive() that ran its round and the '@connect' exchange
\* has returned.
C24_Witness ==
    \E s \in Slots :
        /\ ops[s].op = "receive" /\ ops[s].pc = "done"
        /\ ops[s].round /\ ops[s].setup
        /\ signalingState = "stable"


\* The rids of the encodings of the i-th sender.
RidsOf(i) ==
    { transceivers[i].encodings[k].rid : k \in 1..Len(transceivers[i].encodings) }

\* C25: on a Firefox60 send handler no rid of one send() equals a rid of
\* another, whether the calls follow each other or overlap, and the rids of
\* one send() are pairwise distinct: the senders' encodings share no rid, and
\* a send() that has taken its RID number shares it with no other pending
\* send() and with no encoding of another sender.
C25_RidsNeverMatch ==
    /\ \A i, j \in 1..Len(transceivers) :
           i # j => RidsOf(i) \cap RidsOf(j) = {}
    /\ \A i \in 1..Len(transceivers) :
           \A k, l \in 1..Len(transceivers[i].encodings) :
               transceivers[i].encodings[k].rid = transceivers[i].encodings[l].rid
                   => k = l
    /\ \A s1, s2 \in Slots :
           (s1 # s2 /\ ops[s1].rid # 0 /\ ops[s2].rid # 0)
               => ops[s1].rid # ops[s2].rid
    /\ \A s \in Slots :
           ops[s].rid # 0 =>
               \A i \in 1..Len(transceivers) :
                   i # ops[s].tx => \A r \in RidsOf(i) : r[2] # ops[s].rid

\* C25 witness: two send() calls with simulcast have each set the encodings
\* of a sender of their own.
C25_Witness ==
    \E i, j \in 1..Len(transceivers) :
        /\ i # j
        /\ Len(transceivers[i].encodings) = 3
        /\ Len(transceivers[j].encodings) = 2


\* C26: an operation that awaits pc.setLocalDescription() has called it with
\* the description that its own createOffer()/createAnswer() resolved with,
\* never with the promise of a createOffer()/createAnswer() still pending.
C26_LocalDescriptionFromCompletedCall ==
    \A s \in Slots :
        ops[s].pc = "setLocalDescription" => ops[s].desc = "desc"


\* C27: '@connect' is emitted only by an operation whose setLocalDescription()
\* has just succeeded (the offer of a send(), the answer of a receive()); a
\* send() that ran _setupTransport calls setRemoteDescription(answer) only
\* when the '@connect' exchange has been acknowledged; and the readiness flag
\* becomes true only in the step in which a '@connect' exchange succeeds.
C27_ConnectOrdering ==
    [][ \A s \in Slots :
          /\ (ops[s].pc # "connect" /\ ops'[s].pc = "connect")
                 => /\ ops[s].pc = "setLocalDescription"
                    /\ ops[s].desc = "desc"
                    /\ signalingState' =
                         (IF ops[s].op = "send" THEN "have-local-offer" ELSE "stable")
          /\ ( /\ ops[s].op = "send" /\ ops'[s].op = "send"
               /\ ops[s].pc # "setRemoteDescription"
               /\ ops'[s].pc = "setRemoteDescription"
               /\ ops'[s].setup )
                 => ops[s].pc = "connect" /\ transportReady'
          /\ (~transportReady /\ transportReady')
                 => \E t \in Slots :
                        /\ ops[t].pc = "connect"
                        /\ ops'[t].pc # "connect"
                        /\ ops'[t].err # "connect" ]_vars

\* C27 witness: a send() that emitted '@connect' after its offer was set has
\* had the exchange acknowledged and applies the remote answer.
C27_Witness ==
    \E s \in Slots :
        /\ ops[s].op = "send" /\ ops[s].pc = "setRemoteDescription"
        /\ ops[s].setup
        /\ ~ops[s].readyBefore
        /\ transportReady
        /\ signalingState = "have-local-offer"


\* C28: a send() or receive() invoked on a handler that is not ready and
\* whose '@connect' exchange was rejected has failed with that error, the
\* handler is still not ready and the registry is as before the call; and a
\* send() or receive() invoked on a handler that is not ready runs the
\* '@connect' exchange (again) before it goes past its local description.
C28_ConnectRejectedRetried ==
    \A s \in Slots :
        (ops[s].op \in {"send", "receive"} /\ ~ops[s].readyBefore) =>
            /\ (ops[s].pc = "failed" /\ ops[s].err = "connect")
                   => /\ ~transportReady
                      /\ Registry = ops[s].regBefore
            /\ ( \/ ops[s].op = "send" /\ ops[s].pc = "setRemoteDescription"
                 \/ ops[s].op = "receive" /\ ops[s].pc = "done" )
                   => ops[s].setup


\* C29: whenever no operation is in progress on a Firefox60 send handler,
\* every registered track is the track of a sender of the pc, and the track
\* of every sender whose transceiver is sending is registered.  (Stated for
\* a handler on which no operation had failed when the last one was invoked.)
C29_RegistryMatchesSenders ==
    (IsFirefoxSend /\ \A s \in Slots : Settled(s) /\ ops[s].clean) =>
        /\ \A t \in tracks : FindSender(t) # 0
        /\ \A i \in 1..Len(transceivers) :
               ( /\ transceivers[i].track # NoTrack
                 /\ transceivers[i].direction = "sendonly" )
                   => transceivers[i].track \in tracks


\* C30: restartIce() never changes the registry: while it runs and when it
\* has returned or failed, _tracks and _receiverInfos (the closed flags
\* included) are as they were when it was invoked; and the remote offer a
\* recv handler builds for the restart describes exactly the entries of the
\* registry.
C30_RestartIceKeepsRegistry ==
    \A s \in Slots :
        ops[s].op = "restartIce" =>
            /\ Registry = ops[s].regBefore
            /\ (direction = "recv" /\ ops[s].sdp.built)
                   => ops[s].sdp.entries = receiverInfos

\* C30 witness: a Firefox60 recv handler restarts ICE with an entry that was
\* stopped: the offer of the restart has been applied and describes it.
C30_Witness ==
    \E s \in Slots :
        /\ engine = "Firefox60"
        /\ ops[s].op = "restartIce" /\ ops[s].pc = "setLocalDescription"
        /\ ops[s].round
        /\ Len(ops[s].sdp.entries) = 1
        /\ ops[s].sdp.entries[1].closed


\* C31: in a Firefox60 recv handler, whenever a remote offer is built, every
\* mid that an applied remote offer described is in the new offer at the
\* position it had there; an entry that was stopped is still there, marked
\* closed; the mids no applied offer described come after all the others;
\* and no two entries of the offer share a mid.
C31_OfferEntriesStable ==
    [][IsFirefoxRecv =>
         \A s \in Slots :
             (ops'[s].sdp.built /\ ops'[s].sdp # ops[s].sdp) =>
                 LET e == ops'[s].sdp.entries
                     AppliedMidSet == { p[1] : p \in appliedMids }
                 IN  /\ \A p \in appliedMids :
                             /\ p[2] <= Len(e)
                             /\ Mid(e[p[2]]) = p[1]
                     /\ \A i \in 1..Len(receiverInfos) :
                           \A p \in appliedMids :
                               (receiverInfos[i].closed
                                    /\ Mid(receiverInfos[i]) = p[1]
                                    /\ p[2] <= Len(e))
                                   => e[p[2]].closed
                     /\ \A i, j \in 1..Len(e) :
                           (i < j /\ Mid(e[i]) \notin AppliedMidSet)
                               => Mid(e[j]) \notin AppliedMidSet
                     /\ \A i, j \in 1..Len(e) :
                           Mid(e[i]) = Mid(e[j]) => i = j]_vars

====
